---- MODULE Spec2Model ----
(***************************************************************************)
(* Compute dispatch on the CSF back end of panvk: the command buffer's     *)
(* compute state (bound shader, dirty aspects, driver set, resource table, *)
(* push uniforms, TLS tracking), the transient allocations a dispatch      *)
(* makes, the instructions it appends to the compute subqueue's command    *)
(* stream and the subqueue's relative sync point.                          *)
(*                                                                         *)
(* cmd_dispatch, prepare_driver_set, cmd_dispatch_prepare_tls and          *)
(* dispatch_precomp are translated statement by statement.  Callees whose  *)
(* bodies live in other files of the driver are modelled by their          *)
(* documented contract and say so in their comment.                        *)
(***************************************************************************)
EXTENDS Integers, Sequences, FiniteSets, TLC

VARIABLES
  cb,      \* struct panvk_cmd_buffer: compute state, TLS state, subqueue state,
            \* the compute stream, and (field call) the record of the last call
  pre,      \* the command buffer as the last call found it
  build,    \* the build: PAN_ARCH, and whether NDEBUG compiles assert() out
  crashed,  \* an assertion failed: the process is gone
  hist,     \* counters over the calls made so far
  gpu,      \* the compute subqueue executing the recorded stream
  fau,      \* a uniform register value being packed and its operands
  host      \* buffers, images, their host mappings and the last call on them

vars == <<cb, pre, build, crashed, hist, gpu, fau, host>>

-----------------------------------------------------------------------------
(* Bounds of the model *)

\* number of dispatch entry-point calls (CmdDispatchBase, CmdDispatchIndirect,
\* dispatch_precomp) explored on one command buffer
MaxDispatches == 2

\* device topology reported by pan_query_core_count
CoreIdRange == 2

\* device limit used by the static WLS instance estimate
MaxThreadsPerCore == 8

\* width of a 64-bit register value and position of the FAU count field in
\* it, scaled down (64 -> 16, 56 -> 8) so that the values stay enumerable
U64Bits == 16
FauCountShift == 8

\* number of dispatches in a stream handed to the GPU
MaxJobs == 2

\* log2 of the page size of the host, scaled down (12 -> 2)
PageShift == 2

\* number of elements of the array of a bind call
MaxBinds == 2

-----------------------------------------------------------------------------
(* Program constants *)

\* enum panvk_subqueue_id
PANVK_SUBQUEUE_VERTEX_TILER == 0
PANVK_SUBQUEUE_FRAGMENT == 1
PANVK_SUBQUEUE_COMPUTE == 2
PANVK_SUBQUEUE_COUNT == 3

\* size in bytes of one descriptor slot of a descriptor table
PANVK_DESCRIPTOR_SIZE == 32

\* dirty aspects of the compute state
Aspects == {"CS", "DESC_STATE", "PUSH_UNIFORMS"}

\* allocation steps of the dispatch entry points, in program order
AllocOrder == <<"precomp_push_uniforms", "tsd", "wls", "tls_desc",
                "push_descs", "driver_set", "push_uniforms", "res_table">>

AllocSteps == {AllocOrder[i] : i \in 1..Len(AllocOrder)}

-----------------------------------------------------------------------------
(* Inputs: shaders, workgroup counts, indirect buffer addresses *)

\* struct panvk_shader, the fields the dispatch path reads.  "none" is a
\* shader object without a program (spd address 0).
ShaderIds == {"none", "A", "B"}

Shader(s) ==
  CASE s = "none" ->
         [spd |-> 0, tls_size |-> 0, wls_size |-> 0, dyn_bufs_count |-> 0,
          fau_total_count |-> 0, local_size |-> <<1, 1, 1>>,
          uses_nwg |-> {}, push_sets |-> FALSE]
    [] s = "A" ->
         [spd |-> 100, tls_size |-> 0, wls_size |-> 0, dyn_bufs_count |-> 0,
          fau_total_count |-> 2, local_size |-> <<4, 1, 1>>,
          uses_nwg |-> {}, push_sets |-> FALSE]
    [] s = "B" ->
         [spd |-> 200, tls_size |-> 16, wls_size |-> 8, dyn_bufs_count |-> 2,
          fau_total_count |-> 3, local_size |-> <<2, 2, 1>>,
          uses_nwg |-> {"x", "z"}, push_sets |-> TRUE]
    [] s = "P" ->
         [spd |-> 300, tls_size |-> 8, wls_size |-> 0, dyn_bufs_count |-> 0,
          fau_total_count |-> 0, local_size |-> <<1, 1, 1>>,
          uses_nwg |-> {}, push_sets |-> FALSE]

\* panvk_per_arch(precomp_cache_get): the precompiled kernel of an index
precomp_cache_get(idx) == "P"

WgCounts == {<<4, 1, 1>>, <<2, 3, 1>>}

PrecompGrids == {<<2, 3, 1>>}

\* panvk_buffer_gpu_ptr(buffer, offset) of a buffer bound to memory
BufferAddrs == {64}

\* precompiled kernel argument sizes (bytes)
DataSizes == {8}

\* size in bytes of struct bifrost_precompiled_kernel_sysvals
BIFROST_PRECOMPILED_KERNEL_SYSVALS_SIZE == 32

Max2(a, b) == IF a >= b THEN a ELSE b

\* a local variable of the C code: K applied to the value of e
With(e, K(_)) == K(e)

RECURSIVE NextPow2From(_, _)
NextPow2From(p, n) == IF p >= n THEN p ELSE NextPow2From(2 * p, n)

\* util_next_power_of_two
NextPow2(n) == NextPow2From(1, n)

-----------------------------------------------------------------------------
(* Instruction emitter: one record per instruction appended to the stream *)

Ins(op, a, b, v, w) == [op |-> op, a |-> a, b |-> b, v |-> v, w |-> w]

cs_move64_to(dst, val) == Ins("move64", dst, "-", val, 0)
cs_move32_to(dst, val) == Ins("move32", dst, "-", val, 0)
cs_load64_to(dst, addr, off) == Ins("load64", dst, addr, off, 0)
cs_store64(src, addr, off) == Ins("store64", src, addr, off, 0)
cs_store32(src, addr, off) == Ins("store32", src, addr, off, 0)
\* cs_load_to(dst tuple of n registers, addr, mask, off): v = off, w = n
cs_load_to(dst, n, addr, off) == Ins("load", dst, addr, off, n)
cs_add64(dst, imm) == Ins("add64", dst, dst, imm, 0)
cs_flush_stores == Ins("flush_stores", "-", "-", 0, 0)
\* cs_sync64_add(add_val, sync_addr, defer): b = deferral, w = its slot
cs_sync64_add(defer, slot) == Ins("sync64_add", "sync_addr", defer, 1, slot)
cs_run_compute(incr, axis) == Ins("run_compute", axis, "-", incr, 0)

-----------------------------------------------------------------------------
(* Transient allocator facade *)

\* the address a bump allocation returns: fresh and non-zero, here the
\* position of the request among all requests of the command buffer (each
\* step allocates at most once per call)
StepIndex ==
  [s \in AllocSteps |-> CHOOSE i \in 1..Len(AllocOrder) : AllocOrder[i] = s]

FreshAddr(seqno, step) == (seqno - 1) * Len(AllocOrder) + StepIndex[step]

\* panvk_cmd_alloc_dev_mem / panvk_cmd_alloc_desc, by contract: a bump
\* allocation from a pool of the command buffer that returns a fresh non-zero
\* GPU address, or, when the pool cannot grow, address 0 with the error
\* recorded on the command buffer.  f names the allocation step that runs out
\* of memory in this call ("none": no step does).
Alloc(c, step, f) ==
  IF f = step
  THEN [cb |-> [c EXCEPT !.error = "VK_ERROR_OUT_OF_DEVICE_MEMORY",
                         !.call.failed_at = step],
        gpu |-> 0]
  ELSE [cb |-> [c EXCEPT !.call.allocs = Append(@, step)],
        gpu |-> FreshAddr(c.call.seqno, step)]

\* append instructions to the compute subqueue's stream.  The stream is
\* append-only and nothing reads it back while recording: the state keeps the
\* instructions the current call appended, call.emitted (the stream is its
\* content at entry followed by call.emitted).
Emit(c, seq) == [c EXCEPT !.call.emitted = @ \o seq]

-----------------------------------------------------------------------------
(* Dirty tracking of the compute state *)

compute_state_dirty(c, aspect) == aspect \in c.dirty

compute_state_set_dirty(c, aspect) == [c EXCEPT !.dirty = @ \cup {aspect}]

\* clear_dirty_after_dispatch, by contract: every aspect becomes clean
clear_dirty_after_dispatch(c) == [c EXCEPT !.dirty = {}]

-----------------------------------------------------------------------------
(* Device queries and sizing helpers (pan_encoder.h, pan_props.h), by      *)
(* contract                                                                *)

ThreadsPerWg(local_size) == local_size[1] * local_size[2] * local_size[3]

\* pan_calc_workgroups_per_task: workgroups of this shape that fit one core
pan_calc_workgroups_per_task(local_size) ==
  Max2(1, MaxThreadsPerCore \div ThreadsPerWg(local_size))

\* pan_calc_wls_instances(local_size, props, dim): from the workgroup counts
\* when dim is given, from the static per-shape estimate when dim is NULL
\* (modelled as the empty tuple)
pan_calc_wls_instances(local_size, dim) ==
  IF dim # <<>>
  THEN NextPow2(dim[1]) * NextPow2(dim[2]) * NextPow2(dim[3])
  ELSE pan_calc_workgroups_per_task(local_size)

\* pan_calc_total_wls_size(per-workgroup size, instances, core_id_range)
pan_calc_total_wls_size(size, instances, core_id_range) ==
  size * instances * core_id_range

\* calculate_task_axis_and_increment(shader, phys_dev, &axis, &increment)
calculate_task_axis_and_increment(shader) ==
  [axis |-> "X",
   increment |-> Max2(1, MaxThreadsPerCore \div ThreadsPerWg(shader.local_size))]

-----------------------------------------------------------------------------
(* cmd_dispatch_prepare_tls: returns the per-job TSD address, 0 on failure *)

\* variant: the tracked TLS size is overwritten with the shader's instead of
\* being raised to it
PrepareTlsDesc_Overwrite(c, shader, tsd, f) ==
  With([c EXCEPT !.tls_size = shader.tls_size], LAMBDA c1 :
    IF c1.tls_desc = 0
    THEN With(Alloc(c1, "tls_desc", f), LAMBDA desc :
           IF desc.gpu = 0
           THEN [cb |-> [desc.cb EXCEPT !.tls_desc = desc.gpu], tsd |-> 0]
           ELSE [cb |-> [desc.cb EXCEPT !.tls_desc = desc.gpu], tsd |-> tsd])
    ELSE [cb |-> c1, tsd |-> tsd])

\* lines 108-119: the tracked TLS size and the command buffer's TLS descriptor
PrepareTlsDesc(c, shader, tsd, f) ==
  With([c EXCEPT !.tls_size = Max2(shader.tls_size, c.tls_size)], LAMBDA c1 :
    IF c1.tls_desc = 0
    THEN With(Alloc(c1, "tls_desc", f), LAMBDA desc :
           IF desc.gpu = 0
           THEN [cb |-> [desc.cb EXCEPT !.tls_desc = desc.gpu], tsd |-> 0]
           ELSE [cb |-> [desc.cb EXCEPT !.tls_desc = desc.gpu], tsd |-> tsd])
    ELSE [cb |-> c1, tsd |-> tsd])

\* variant: the WLS instance count is taken from dim for indirect dispatches
\* too
PrepareWls_UsesDim(c, shader, dim, indirect, tsd, f) ==
  IF shader.wls_size # 0
  THEN
    With(pan_calc_wls_instances(shader.local_size, dim), LAMBDA instances :
    With(pan_calc_total_wls_size(shader.wls_size, instances, CoreIdRange),
         LAMBDA wls_total_size :
    With(Alloc([c EXCEPT !.call.wls_instances = instances,
                         !.call.wls_total_size = wls_total_size], "wls", f),
         LAMBDA wls :
      IF wls.gpu = 0 THEN [cb |-> wls.cb, tsd |-> 0]
      ELSE PrepareTlsDesc(wls.cb, shader, tsd, f))))
  ELSE PrepareTlsDesc(c, shader, tsd, f)

\* variant: a WLS block is allocated whether or not the shader declares one
PrepareWls_Always(c, shader, dim, indirect, tsd, f) ==
  With(pan_calc_wls_instances(shader.local_size,
                              IF indirect THEN <<>> ELSE dim),
       LAMBDA instances :
  With(pan_calc_total_wls_size(shader.wls_size, instances, CoreIdRange),
       LAMBDA wls_total_size :
  With(Alloc([c EXCEPT !.call.wls_instances = instances,
                       !.call.wls_total_size = wls_total_size], "wls", f),
       LAMBDA wls :
    IF wls.gpu = 0 THEN [cb |-> wls.cb, tsd |-> 0]
    ELSE PrepareTlsDesc(wls.cb, shader, tsd, f))))

\* lines 87-106: the WLS block of this dispatch
PrepareWls(c, shader, dim, indirect, tsd, f) ==
  IF shader.wls_size # 0
  THEN
    With(pan_calc_wls_instances(shader.local_size,
                                IF indirect THEN <<>> ELSE dim),
         LAMBDA instances :
    With(pan_calc_total_wls_size(shader.wls_size, instances, CoreIdRange),
         LAMBDA wls_total_size :
    With(Alloc([c EXCEPT !.call.wls_instances = instances,
                         !.call.wls_total_size = wls_total_size], "wls", f),
         LAMBDA wls :
      IF wls.gpu = 0 THEN [cb |-> wls.cb, tsd |-> 0]
      ELSE PrepareTlsDesc(wls.cb, shader, tsd, f))))
  ELSE PrepareTlsDesc(c, shader, tsd, f)

cmd_dispatch_prepare_tls(c, shader, dim, indirect, f) ==
  With(Alloc(c, "tsd", f), LAMBDA tsd :
    IF tsd.gpu = 0 THEN [cb |-> tsd.cb, tsd |-> tsd.gpu]
    ELSE PrepareWls(tsd.cb, shader, dim, indirect, tsd.gpu, f))

-----------------------------------------------------------------------------
(* prepare_driver_set: the driver-owned descriptor table of the compute    *)
(* shader                                                                  *)

\* panvk_per_arch(cmd_fill_dyn_bufs)(desc_state, cs, &descs[1]), by contract:
\* one buffer descriptor per dynamic buffer of the shader, from slot 1 on.
\* Slot i of the C array is element i + 1 of the sequence.
cmd_fill_dyn_bufs(descs, shader) ==
  [i \in 1..Len(descs) |->
     IF 2 <= i /\ i <= shader.dyn_bufs_count + 1 THEN "DYN_BUF" ELSE descs[i]]

\* variant: the dummy sampler is written after the dynamic buffers, into the
\* last slot, and the dynamic buffers start at slot 0
DriverSetDescs_SamplerLast(cs, desc_count) ==
  [i \in 1..desc_count |-> IF i = desc_count THEN "SAMPLER" ELSE "DYN_BUF"]

\* lines 55-61: the descriptors written into the new table of desc_count slots
DriverSetDescs(cs, desc_count) ==
  cmd_fill_dyn_bufs([[i \in 1..desc_count |-> "UNINIT"] EXCEPT ![1] = "SAMPLER"],
                    cs)

\* variant: the driver set is rebuilt on every dispatch
prepare_driver_set_Always(c, f) ==
  With(Shader(c.shader), LAMBDA cs :
  With(cs.dyn_bufs_count + 1, LAMBDA desc_count :
  With(Alloc(c, "driver_set", f), LAMBDA driver_set :
    IF driver_set.gpu = 0
    THEN [cb |-> driver_set.cb, result |-> "VK_ERROR_OUT_OF_DEVICE_MEMORY"]
    ELSE
      [cb |-> compute_state_set_dirty(
                [driver_set.cb EXCEPT
                   !.driver_set = [dev_addr |-> driver_set.gpu,
                                   size |-> desc_count * PANVK_DESCRIPTOR_SIZE,
                                   descs |-> DriverSetDescs(cs, desc_count)],
                   !.call.rebuilt = @ \cup {"driver_set"}],
                "DESC_STATE"),
       result |-> "VK_SUCCESS"])))

\* variant: DESC_STATE is cleared once the driver set is rebuilt instead of
\* being set
prepare_driver_set_ClearsDescState(c, f) ==
  IF ~compute_state_dirty(c, "CS") /\ ~compute_state_dirty(c, "DESC_STATE")
  THEN [cb |-> c, result |-> "VK_SUCCESS"]
  ELSE
    With(Shader(c.shader), LAMBDA cs :
    With(cs.dyn_bufs_count + 1, LAMBDA desc_count :
    With(Alloc(c, "driver_set", f), LAMBDA driver_set :
      IF driver_set.gpu = 0
      THEN [cb |-> driver_set.cb, result |-> "VK_ERROR_OUT_OF_DEVICE_MEMORY"]
      ELSE
        [cb |-> [driver_set.cb EXCEPT
                   !.driver_set = [dev_addr |-> driver_set.gpu,
                                   size |-> desc_count * PANVK_DESCRIPTOR_SIZE,
                                   descs |-> DriverSetDescs(cs, desc_count)],
                   !.call.rebuilt = @ \cup {"driver_set"},
                   !.dirty = @ \ {"DESC_STATE"}],
         result |-> "VK_SUCCESS"])))

\* variant: DESC_STATE is set before the table is allocated
prepare_driver_set_DirtyFirst(c, f) ==
  IF ~compute_state_dirty(c, "CS") /\ ~compute_state_dirty(c, "DESC_STATE")
  THEN [cb |-> c, result |-> "VK_SUCCESS"]
  ELSE
    With(Shader(c.shader), LAMBDA cs :
    With(cs.dyn_bufs_count + 1, LAMBDA desc_count :
    With(Alloc(compute_state_set_dirty(c, "DESC_STATE"), "driver_set", f),
         LAMBDA driver_set :
      IF driver_set.gpu = 0
      THEN [cb |-> driver_set.cb, result |-> "VK_ERROR_OUT_OF_DEVICE_MEMORY"]
      ELSE
        [cb |-> [driver_set.cb EXCEPT
                   !.driver_set = [dev_addr |-> driver_set.gpu,
                                   size |-> desc_count * PANVK_DESCRIPTOR_SIZE,
                                   descs |-> DriverSetDescs(cs, desc_count)],
                   !.call.rebuilt = @ \cup {"driver_set"}],
         result |-> "VK_SUCCESS"])))

\* result: VK_SUCCESS or VK_ERROR_OUT_OF_DEVICE_MEMORY
prepare_driver_set(c, f) ==
  IF ~compute_state_dirty(c, "CS") /\ ~compute_state_dirty(c, "DESC_STATE")
  THEN [cb |-> c, result |-> "VK_SUCCESS"]
  ELSE
    With(Shader(c.shader), LAMBDA cs :
    With(cs.dyn_bufs_count + 1, LAMBDA desc_count :
    With(Alloc(c, "driver_set", f), LAMBDA driver_set :
      IF driver_set.gpu = 0
      THEN [cb |-> driver_set.cb, result |-> "VK_ERROR_OUT_OF_DEVICE_MEMORY"]
      ELSE
        [cb |-> compute_state_set_dirty(
                  [driver_set.cb EXCEPT
                     !.driver_set = [dev_addr |-> driver_set.gpu,
                                     size |-> desc_count * PANVK_DESCRIPTOR_SIZE,
                                     descs |-> DriverSetDescs(cs, desc_count)],
                     !.call.rebuilt = @ \cup {"driver_set"}],
                  "DESC_STATE"),
         result |-> "VK_SUCCESS"])))

-----------------------------------------------------------------------------
(* Callees of cmd_dispatch defined in other files of the driver, by        *)
(* contract                                                                *)

\* cmd_prepare_push_descs(cmdbuf, desc_state, used_set_mask): allocates the
\* device copy of the push descriptor sets the shader uses
cmd_prepare_push_descs(c, shader, f) ==
  IF ~shader.push_sets THEN [cb |-> c, result |-> "VK_SUCCESS"]
  ELSE With(Alloc(c, "push_descs", f), LAMBDA a :
       IF a.gpu = 0
       THEN [cb |-> a.cb, result |-> "VK_ERROR_OUT_OF_DEVICE_MEMORY"]
       ELSE [cb |-> [a.cb EXCEPT !.call.rebuilt = @ \cup {"push_descs"}],
             result |-> "VK_SUCCESS"])

\* cmd_prepare_dispatch_sysvals(cmdbuf, info): stores the dispatch's system
\* values; when one the shader reads changed (sysvals_changed), the push
\* uniforms become dirty
cmd_prepare_dispatch_sysvals(c, sysvals_changed) ==
  IF sysvals_changed THEN compute_state_set_dirty(c, "PUSH_UNIFORMS") ELSE c

\* cmd_prepare_push_uniforms(cmdbuf, shader, repeat_count): rebuilds the
\* push-uniform block when PUSH_UNIFORMS is dirty
cmd_prepare_push_uniforms(c, shader, f) ==
  IF ~compute_state_dirty(c, "PUSH_UNIFORMS")
  THEN [cb |-> c, result |-> "VK_SUCCESS"]
  ELSE With(Alloc(c, "push_uniforms", f), LAMBDA a :
       IF a.gpu = 0
       THEN [cb |-> a.cb, result |-> "VK_ERROR_OUT_OF_DEVICE_MEMORY"]
       ELSE [cb |-> [a.cb EXCEPT !.push_uniforms = a.gpu,
                                 !.call.rebuilt = @ \cup {"push_uniforms"}],
             result |-> "VK_SUCCESS"])

\* cmd_prepare_shader_res_table(cmdbuf, desc_state, shader, shader_desc_state,
\* repeat_count): a new resource table whose entry 0 is the current driver set
cmd_prepare_shader_res_table(c, shader, f) ==
  With(Alloc(c, "res_table", f), LAMBDA a :
    IF a.gpu = 0
    THEN [cb |-> a.cb, result |-> "VK_ERROR_OUT_OF_DEVICE_MEMORY"]
    ELSE [cb |-> [a.cb EXCEPT !.res_table = a.gpu,
                              !.res_table_driver_set = a.cb.driver_set.dev_addr,
                              !.call.rebuilt = @ \cup {"res_table"}],
          result |-> "VK_SUCCESS"])

\* cs_next_iter_sb(cmdbuf, subqueue, scratch): selects the scoreboard slot of
\* the next iteration
cs_next_iter_sb == Ins("next_iter_sb", "-", "-", 0, 0)

\* pan_pack(COMPUTE_SIZE_WORKGROUP): sizes minus one in 10-bit fields
WgSizePack(local_size) ==
  (local_size[1] - 1) + (local_size[2] - 1) * 1024
    + (local_size[3] - 1) * 1048576

\* sysval_offset(compute, num_work_groups.<axis>), relative to num_work_groups
SysvalOffset(axis) == CASE axis = "x" -> 0 [] axis = "y" -> 4 [] axis = "z" -> 8

RECURSIVE BitOr(_, _)
BitOr(a, b) ==
  IF a = 0 THEN b
  ELSE IF b = 0 THEN a
  ELSE (IF a % 2 = 1 \/ b % 2 = 1 THEN 1 ELSE 0) + 2 * BitOr(a \div 2, b \div 2)

\* variant: the count is or-ed in without the shift
fau_ptr_NoShift(push_uniforms, total_count) ==
  BitOr(push_uniforms, total_count % 2^U64Bits)

\* push_uniforms | ((uint64_t)total_count << 56)
fau_ptr(push_uniforms, total_count) ==
  BitOr(push_uniforms, (total_count * 2^FauCountShift) % 2^U64Bits)

-----------------------------------------------------------------------------
(* cmd_dispatch *)

\* the record of one call, kept in cb.call
NewCall(kind, info, seqno, sysvals_changed) ==
  [kind |-> kind, info |-> info, seqno |-> seqno,
   sysvals_changed |-> sysvals_changed, outcome |-> "running", failed_at |-> "none",
   allocs |-> <<>>, emitted |-> <<>>, rebuilt |-> {}, dirty_at_emit |-> {},
   wls_instances |-> 0, wls_total_size |-> 0, tsd |-> 0]

Return(c, outcome) == [c EXCEPT !.call.outcome = outcome]

\* variant: the TLS pointer is copied for every shader
TlsCopy_Always(c, shader, tsd) ==
  <<cs_move64_to("scratch0", c.tls_desc),
    cs_load64_to("scratch2", "scratch0", 8),
    cs_move64_to("scratch0", tsd),
    cs_store64("scratch2", "scratch0", 8),
    cs_flush_stores>>

\* "Copy the global TLS pointer to the per-job TSD."
TlsCopy(c, shader, tsd) ==
  IF shader.tls_size # 0
  THEN <<cs_move64_to("scratch0", c.tls_desc),
         cs_load64_to("scratch2", "scratch0", 8),
         cs_move64_to("scratch0", tsd),
         cs_store64("scratch2", "scratch0", 8),
         cs_flush_stores>>
  ELSE <<>>

\* variant: the job-size registers are loaded after the address register was
\* reused for the push uniforms
IndirectJobSize_LoadsLate(c, shader, info) ==
  <<cs_move64_to("scratch0", info.buffer_dev_addr),
    cs_move64_to("scratch0", c.push_uniforms),
    cs_load_to("JOB_SIZE_X", 3, "scratch0", 0)>>
  \o (IF "x" \in shader.uses_nwg
      THEN <<cs_store32("JOB_SIZE_X", "scratch0", SysvalOffset("x"))>> ELSE <<>>)
  \o (IF "y" \in shader.uses_nwg
      THEN <<cs_store32("JOB_SIZE_Y", "scratch0", SysvalOffset("y"))>> ELSE <<>>)
  \o (IF "z" \in shader.uses_nwg
      THEN <<cs_store32("JOB_SIZE_Z", "scratch0", SysvalOffset("z"))>> ELSE <<>>)
  \o <<cs_flush_stores>>

\* the job-size registers of an indirect dispatch
IndirectJobSize(c, shader, info) ==
  <<cs_move64_to("scratch0", info.buffer_dev_addr),
    cs_load_to("JOB_SIZE_X", 3, "scratch0", 0),
    cs_move64_to("scratch0", c.push_uniforms)>>
  \o (IF "x" \in shader.uses_nwg
      THEN <<cs_store32("JOB_SIZE_X", "scratch0", SysvalOffset("x"))>> ELSE <<>>)
  \o (IF "y" \in shader.uses_nwg
      THEN <<cs_store32("JOB_SIZE_Y", "scratch0", SysvalOffset("y"))>> ELSE <<>>)
  \o (IF "z" \in shader.uses_nwg
      THEN <<cs_store32("JOB_SIZE_Z", "scratch0", SysvalOffset("z"))>> ELSE <<>>)
  \o <<cs_flush_stores>>

\* the job-size registers of a direct dispatch
DirectJobSize(info) ==
  <<cs_move32_to("JOB_SIZE_X", info.wg_count[1]),
    cs_move32_to("JOB_SIZE_Y", info.wg_count[2]),
    cs_move32_to("JOB_SIZE_Z", info.wg_count[3])>>

\* variant: the resource table register is loaded once per dirty aspect
ComputeCtx_SrtPerAspect(c, shader, tsd, info, indirect) ==
  (IF compute_state_dirty(c, "CS")
   THEN <<cs_move64_to("SRT_0", c.res_table)>> ELSE <<>>)
  \o (IF compute_state_dirty(c, "DESC_STATE")
      THEN <<cs_move64_to("SRT_0", c.res_table)>> ELSE <<>>)
  \o (IF compute_state_dirty(c, "PUSH_UNIFORMS")
      THEN <<cs_move64_to("FAU_0",
                          fau_ptr(c.push_uniforms, shader.fau_total_count))>>
      ELSE <<>>)
  \o (IF compute_state_dirty(c, "CS")
      THEN <<cs_move64_to("SPD_0", shader.spd)>> ELSE <<>>)
  \o <<cs_move64_to("TSD_0", tsd),
       cs_move32_to("GLOBAL_ATTRIBUTE_OFFSET", 0),
       cs_move32_to("WG_SIZE", WgSizePack(shader.local_size)),
       cs_move32_to("JOB_OFFSET_X", 0),
       cs_move32_to("JOB_OFFSET_Y", 0),
       cs_move32_to("JOB_OFFSET_Z", 0)>>
  \o (IF indirect THEN IndirectJobSize(c, shader, info)
      ELSE DirectJobSize(info))

\* variant: the uniform pointer register is loaded on every dispatch
ComputeCtx_FauAlways(c, shader, tsd, info, indirect) ==
  (IF compute_state_dirty(c, "CS") \/ compute_state_dirty(c, "DESC_STATE")
   THEN <<cs_move64_to("SRT_0", c.res_table)>> ELSE <<>>)
  \o <<cs_move64_to("FAU_0",
                    fau_ptr(c.push_uniforms, shader.fau_total_count))>>
  \o (IF compute_state_dirty(c, "CS")
      THEN <<cs_move64_to("SPD_0", shader.spd)>> ELSE <<>>)
  \o <<cs_move64_to("TSD_0", tsd),
       cs_move32_to("GLOBAL_ATTRIBUTE_OFFSET", 0),
       cs_move32_to("WG_SIZE", WgSizePack(shader.local_size)),
       cs_move32_to("JOB_OFFSET_X", 0),
       cs_move32_to("JOB_OFFSET_Y", 0),
       cs_move32_to("JOB_OFFSET_Z", 0)>>
  \o (IF indirect THEN IndirectJobSize(c, shader, info)
      ELSE DirectJobSize(info))

\* variant: the shader program register is reloaded under the condition of
\* the resource table register
ComputeCtx_SpdWithSrt(c, shader, tsd, info, indirect) ==
  (IF compute_state_dirty(c, "CS") \/ compute_state_dirty(c, "DESC_STATE")
   THEN <<cs_move64_to("SRT_0", c.res_table)>> ELSE <<>>)
  \o (IF compute_state_dirty(c, "PUSH_UNIFORMS")
      THEN <<cs_move64_to("FAU_0",
                          fau_ptr(c.push_uniforms, shader.fau_total_count))>>
      ELSE <<>>)
  \o (IF compute_state_dirty(c, "CS") \/ compute_state_dirty(c, "DESC_STATE")
      THEN <<cs_move64_to("SPD_0", shader.spd)>> ELSE <<>>)
  \o <<cs_move64_to("TSD_0", tsd),
       cs_move32_to("GLOBAL_ATTRIBUTE_OFFSET", 0),
       cs_move32_to("WG_SIZE", WgSizePack(shader.local_size)),
       cs_move32_to("JOB_OFFSET_X", 0),
       cs_move32_to("JOB_OFFSET_Y", 0),
       cs_move32_to("JOB_OFFSET_Z", 0)>>
  \o (IF indirect THEN IndirectJobSize(c, shader, info)
      ELSE DirectJobSize(info))

\* the body of cs_update_compute_ctx(b) { ... }
ComputeCtx(c, shader, tsd, info, indirect) ==
  (IF compute_state_dirty(c, "CS") \/ compute_state_dirty(c, "DESC_STATE")
   THEN <<cs_move64_to("SRT_0", c.res_table)>> ELSE <<>>)
  \o (IF compute_state_dirty(c, "PUSH_UNIFORMS")
      THEN <<cs_move64_to("FAU_0",
                          fau_ptr(c.push_uniforms, shader.fau_total_count))>>
      ELSE <<>>)
  \o (IF compute_state_dirty(c, "CS")
      THEN <<cs_move64_to("SPD_0", shader.spd)>> ELSE <<>>)
  \o <<cs_move64_to("TSD_0", tsd),
       cs_move32_to("GLOBAL_ATTRIBUTE_OFFSET", 0),
       cs_move32_to("WG_SIZE", WgSizePack(shader.local_size)),
       cs_move32_to("JOB_OFFSET_X", 0),
       cs_move32_to("JOB_OFFSET_Y", 0),
       cs_move32_to("JOB_OFFSET_Z", 0)>>
  \o (IF indirect THEN IndirectJobSize(c, shader, info)
      ELSE DirectJobSize(info))

\* variant: CASE(x) defers the sync add on the slot of the iteration after x
SyncCase_NextSlot(x) ==
  <<Ins("case", "iter_sb", "-", x, 0), cs_sync64_add("defer", (x + 1) % 5)>>

\* CASE(x): the sync add deferred on the scoreboard slot of iteration x
SyncCase(x) ==
  <<Ins("case", "iter_sb", "-", x, 0), cs_sync64_add("defer", x)>>

\* variant: the sync object of the fragment subqueue is addressed
SyncEpilogue_FragmentObject(pan_arch) ==
  IF pan_arch >= 11
  THEN <<cs_load64_to("sync_addr", "subqueue_ctx", 0),
         cs_add64("sync_addr", PANVK_SUBQUEUE_FRAGMENT),
         cs_move64_to("add_val", 1),
         cs_sync64_add("defer_indirect", 0)>>
  ELSE <<cs_load_to("sync_addr", 3, "subqueue_ctx", 0),
         cs_add64("sync_addr", PANVK_SUBQUEUE_FRAGMENT),
         cs_move64_to("add_val", 1),
         Ins("match", "iter_sb", "cmp_scratch", 0, 0)>>
       \o SyncCase(0) \o SyncCase(1) \o SyncCase(2) \o SyncCase(3)
       \o SyncCase(4)
       \o <<Ins("match_end", "-", "-", 0, 0)>>

\* the completion signal: sync object PANVK_SUBQUEUE_COMPUTE += 1.  The
\* offset added to the syncobjs base is in units of sizeof(panvk_cs_sync64).
SyncEpilogue(pan_arch) ==
  IF pan_arch >= 11
  THEN <<cs_load64_to("sync_addr", "subqueue_ctx", 0),
         cs_add64("sync_addr", PANVK_SUBQUEUE_COMPUTE),
         cs_move64_to("add_val", 1),
         cs_sync64_add("defer_indirect", 0)>>
  ELSE <<cs_load_to("sync_addr", 3, "subqueue_ctx", 0),
         cs_add64("sync_addr", PANVK_SUBQUEUE_COMPUTE),
         cs_move64_to("add_val", 1),
         Ins("match", "iter_sb", "cmp_scratch", 0, 0)>>
       \o SyncCase(0) \o SyncCase(1) \o SyncCase(2) \o SyncCase(3)
       \o SyncCase(4)
       \o <<Ins("match_end", "-", "-", 0, 0)>>

\* variant: the sync point is decremented
AdvanceSyncPoint_Decrement(c) ==
  [c EXCEPT !.relative_sync_point[PANVK_SUBQUEUE_COMPUTE] = @ - 1]

\* variant: the sync point is advanced once per sync object word
AdvanceSyncPoint_Twice(c) ==
  [c EXCEPT !.relative_sync_point[PANVK_SUBQUEUE_COMPUTE] = @ + 2]

\* ++cmdbuf->state.cs[PANVK_SUBQUEUE_COMPUTE].relative_sync_point
AdvanceSyncPoint(c) ==
  [c EXCEPT !.relative_sync_point[PANVK_SUBQUEUE_COMPUTE] = @ + 1]

\* variant: an indirect dispatch is issued with the task increment of a
\* direct one before its calculation
RunCompute_ZeroIncrement(shader, indirect, wg_per_task) ==
  <<cs_next_iter_sb,
    IF indirect
    THEN cs_run_compute(0, "X")
    ELSE cs_run_compute(calculate_task_axis_and_increment(shader).increment,
                        calculate_task_axis_and_increment(shader).axis)>>

\* variant: the scoreboard slot is selected after the run-compute
RunCompute_SelectsAfter(shader, indirect, wg_per_task) ==
  <<IF indirect
    THEN cs_run_compute(wg_per_task, "X")
    ELSE cs_run_compute(calculate_task_axis_and_increment(shader).increment,
                        calculate_task_axis_and_increment(shader).axis),
    cs_next_iter_sb>>

\* lines 279-303: scoreboard selection and the run-compute instruction
RunCompute(shader, indirect, wg_per_task) ==
  <<cs_next_iter_sb,
    IF indirect
    THEN cs_run_compute(wg_per_task, "X")
    ELSE cs_run_compute(calculate_task_axis_and_increment(shader).increment,
                        calculate_task_axis_and_increment(shader).axis)>>

\* variant: the completion signal is emitted before the run-compute
DispatchEmit_SyncBeforeRun(c, shader, tsd, info, indirect, wg_per_task, pan_arch) ==
  With(Emit([c EXCEPT !.call.dirty_at_emit = c.dirty], TlsCopy(c, shader, tsd)),
       LAMBDA c1 :
  With(Emit(c1, ComputeCtx(c1, shader, tsd, info, indirect)), LAMBDA c2 :
  With(Emit(c2, SyncEpilogue(pan_arch)), LAMBDA c3 :
  With(Emit(c3, RunCompute(shader, indirect, wg_per_task)), LAMBDA c4 :
    Return(clear_dirty_after_dispatch(AdvanceSyncPoint(c4)), "ok")))))

\* variant: the dirty aspects are cleared before the registers are loaded
DispatchEmit_ClearsFirst(c, shader, tsd, info, indirect, wg_per_task, pan_arch) ==
  With(Emit(clear_dirty_after_dispatch(c), TlsCopy(c, shader, tsd)), LAMBDA c1 :
  With(Emit(c1, ComputeCtx(c1, shader, tsd, info, indirect)), LAMBDA c2 :
  With(Emit(c2, RunCompute(shader, indirect, wg_per_task)), LAMBDA c3 :
  With(Emit(c3, SyncEpilogue(pan_arch)), LAMBDA c4 :
    Return(AdvanceSyncPoint(c4), "ok")))))

\* lines 186-349: everything after the last failable step
DispatchEmit(c, shader, tsd, info, indirect, wg_per_task, pan_arch) ==
  With(Emit([c EXCEPT !.call.dirty_at_emit = c.dirty], TlsCopy(c, shader, tsd)),
       LAMBDA c1 :
  With(Emit(c1, ComputeCtx(c1, shader, tsd, info, indirect)), LAMBDA c2 :
  With(Emit(c2, RunCompute(shader, indirect, wg_per_task)), LAMBDA c3 :
  With(Emit(c3, SyncEpilogue(pan_arch)), LAMBDA c4 :
    Return(clear_dirty_after_dispatch(AdvanceSyncPoint(c4)), "ok")))))

\* result = step; if (result != VK_SUCCESS) return;
Try(r, K(_)) == IF r.result # "VK_SUCCESS" THEN Return(r.cb, "fail") ELSE K(r.cb)

\* variant: the resource table is rebuilt only when the shader changed
DispatchWithTsd_StaleTable(c, shader, tsd, info, indirect, f, sysvals_changed, pan_arch) ==
  With(IF indirect THEN pan_calc_workgroups_per_task(shader.local_size) ELSE 0,
       LAMBDA wg_per_task :
  Try(IF compute_state_dirty(c, "DESC_STATE") \/ compute_state_dirty(c, "CS")
      THEN cmd_prepare_push_descs(c, shader, f)
      ELSE [cb |-> c, result |-> "VK_SUCCESS"], LAMBDA c1 :
  Try(prepare_driver_set(cmd_prepare_dispatch_sysvals(c1, sysvals_changed), f),
      LAMBDA c2 :
  Try(cmd_prepare_push_uniforms(c2, shader, f), LAMBDA c3 :
  Try(IF compute_state_dirty(c3, "CS")
      THEN cmd_prepare_shader_res_table(c3, shader, f)
      ELSE [cb |-> c3, result |-> "VK_SUCCESS"], LAMBDA c4 :
    DispatchEmit(c4, shader, tsd, info, indirect, wg_per_task, pan_arch))))))

\* lines 153-349, entered with the per-job TSD allocated
DispatchWithTsd(c, shader, tsd, info, indirect, f, sysvals_changed, pan_arch) ==
  With(IF indirect THEN pan_calc_workgroups_per_task(shader.local_size) ELSE 0,
       LAMBDA wg_per_task :
  Try(IF compute_state_dirty(c, "DESC_STATE") \/ compute_state_dirty(c, "CS")
      THEN cmd_prepare_push_descs(c, shader, f)
      ELSE [cb |-> c, result |-> "VK_SUCCESS"], LAMBDA c1 :
  Try(prepare_driver_set(cmd_prepare_dispatch_sysvals(c1, sysvals_changed), f),
      LAMBDA c2 :
  Try(cmd_prepare_push_uniforms(c2, shader, f), LAMBDA c3 :
  Try(IF compute_state_dirty(c3, "CS") \/ compute_state_dirty(c3, "DESC_STATE")
      THEN cmd_prepare_shader_res_table(c3, shader, f)
      ELSE [cb |-> c3, result |-> "VK_SUCCESS"], LAMBDA c4 :
    DispatchEmit(c4, shader, tsd, info, indirect, wg_per_task, pan_arch))))))

\* variant: the entry point, not the buffer address, decides the kind
cmd_dispatch_KindFromEntry(c, info, f, sysvals_changed, pan_arch) ==
  With(Shader(c.shader), LAMBDA shader :
    IF shader.spd = 0 THEN Return(c, "noshader")
    ELSE
      With(c.call.kind = "CmdDispatchIndirect", LAMBDA indirect :
      With(cmd_dispatch_prepare_tls(c, shader, info.wg_count, indirect, f),
           LAMBDA tls :
        IF tls.tsd = 0 THEN Return(tls.cb, "fail")
        ELSE DispatchWithTsd([tls.cb EXCEPT !.call.tsd = tls.tsd], shader,
                             tls.tsd, info, indirect, f, sysvals_changed,
                             pan_arch))))

\* variant: the TLS pointer copy is emitted as soon as the TSD is allocated
cmd_dispatch_EmitsEarly(c, info, f, sysvals_changed, pan_arch) ==
  With(Shader(c.shader), LAMBDA shader :
    IF shader.spd = 0 THEN Return(c, "noshader")
    ELSE
      With(info.buffer_dev_addr # 0, LAMBDA indirect :
      With(cmd_dispatch_prepare_tls(c, shader, info.wg_count, indirect, f),
           LAMBDA tls :
        IF tls.tsd = 0 THEN Return(tls.cb, "fail")
        ELSE DispatchWithTsd(Emit([tls.cb EXCEPT !.call.tsd = tls.tsd],
                                  TlsCopy(tls.cb, shader, tls.tsd)),
                             shader, tls.tsd, info, indirect, f, sysvals_changed,
                             pan_arch))))

\* variant: the dispatch is compiled whether or not the shader has a program
cmd_dispatch_NoShaderCheck(c, info, f, sysvals_changed, pan_arch) ==
  With(Shader(c.shader), LAMBDA shader :
      With(info.buffer_dev_addr # 0, LAMBDA indirect :
      With(cmd_dispatch_prepare_tls(c, shader, info.wg_count, indirect, f),
           LAMBDA tls :
        IF tls.tsd = 0 THEN Return(tls.cb, "fail")
        ELSE DispatchWithTsd([tls.cb EXCEPT !.call.tsd = tls.tsd], shader,
                             tls.tsd, info, indirect, f, sysvals_changed,
                             pan_arch))))

cmd_dispatch(c, info, f, sysvals_changed, pan_arch) ==
  With(Shader(c.shader), LAMBDA shader :
    IF shader.spd = 0 THEN Return(c, "noshader")
    ELSE
      With(info.buffer_dev_addr # 0, LAMBDA indirect :
      With(cmd_dispatch_prepare_tls(c, shader, info.wg_count, indirect, f),
           LAMBDA tls :
        IF tls.tsd = 0 THEN Return(tls.cb, "fail")
        ELSE DispatchWithTsd([tls.cb EXCEPT !.call.tsd = tls.tsd], shader,
                             tls.tsd, info, indirect, f, sysvals_changed,
                             pan_arch))))

-----------------------------------------------------------------------------
(* dispatch_precomp: dispatch of a precompiled kernel *)

DivRoundUp(a, b) == (a + b - 1) \div b

PrecompCtx(shader, push_uniforms, tsd, grid, data_size) ==
  <<cs_move64_to("SRT_0", 0),
    cs_move64_to("FAU_0",
                 fau_ptr(push_uniforms,
                         DivRoundUp(BIFROST_PRECOMPILED_KERNEL_SYSVALS_SIZE
                                      + data_size, 8))),
    cs_move64_to("SPD_0", shader.spd),
    cs_move64_to("TSD_0", tsd),
    cs_move32_to("GLOBAL_ATTRIBUTE_OFFSET", 0),
    cs_move32_to("WG_SIZE", WgSizePack(shader.local_size)),
    cs_move32_to("JOB_OFFSET_X", 0),
    cs_move32_to("JOB_OFFSET_Y", 0),
    cs_move32_to("JOB_OFFSET_Z", 0),
    cs_move32_to("JOB_SIZE_X", grid[1]),
    cs_move32_to("JOB_SIZE_Y", grid[2]),
    cs_move32_to("JOB_SIZE_Z", grid[3])>>

\* variant: the precompiled kernel leaves the aspects as it found them
PrecompEmit_KeepsDirty(c, shader, push_uniforms, tsd, grid, data_size, pan_arch) ==
  Return(AdvanceSyncPoint(
           Emit(c, TlsCopy(c, shader, tsd)
                     \o PrecompCtx(shader, push_uniforms, tsd, grid, data_size)
                     \o RunCompute(shader, FALSE, 0)
                     \o SyncEpilogue(pan_arch))),
         "ok")

\* lines 57-167
PrecompEmit(c, shader, push_uniforms, tsd, grid, data_size, pan_arch) ==
  With(Emit(c, TlsCopy(c, shader, tsd)), LAMBDA c1 :
  With(Emit(c1, PrecompCtx(shader, push_uniforms, tsd, grid, data_size)),
       LAMBDA c2 :
  With(Emit(c2, RunCompute(shader, FALSE, 0)), LAMBDA c3 :
  With(Emit(c3, SyncEpilogue(pan_arch)), LAMBDA c4 :
    Return(compute_state_set_dirty(
             compute_state_set_dirty(
               compute_state_set_dirty(AdvanceSyncPoint(c4), "CS"),
               "DESC_STATE"),
             "PUSH_UNIFORMS"),
           "ok")))))

\* assert(cond): aborts the process unless NDEBUG compiled it out
AssertFails(cond, ndebug) == ~cond /\ ~ndebug

\* outcome "assert": an assertion failed; outcome "segv": the kernel's
\* arguments were copied through the NULL CPU pointer of a failed allocation
dispatch_precomp(c, grid, barrier, idx, data_size, f, bld) ==
  IF AssertFails(barrier = "PANLIB_BARRIER_NONE", bld.ndebug)
  THEN Return(c, "assert")
  ELSE
    With(Shader(precomp_cache_get(idx)), LAMBDA shader :
    With(Alloc(c, "precomp_push_uniforms", f), LAMBDA push_uniforms :
      IF AssertFails(push_uniforms.gpu # 0, bld.ndebug)
      THEN Return(push_uniforms.cb, "assert")
      ELSE IF push_uniforms.gpu = 0 THEN Return(push_uniforms.cb, "segv")
      ELSE
        With(cmd_dispatch_prepare_tls(push_uniforms.cb, shader, grid, FALSE, f),
             LAMBDA tls :
          IF AssertFails(tls.tsd # 0, bld.ndebug) THEN Return(tls.cb, "assert")
          ELSE PrecompEmit([tls.cb EXCEPT !.call.tsd = tls.tsd], shader,
                           push_uniforms.gpu, tls.tsd, grid, data_size,
                           bld.pan_arch))))

-----------------------------------------------------------------------------
(* The state machine: one command buffer recording compute work *)

Subqueues == 0..(PANVK_SUBQUEUE_COUNT - 1)

NoInfo == [wg_count |-> <<0, 0, 0>>, buffer_dev_addr |-> 0]

\* the command buffer when recording begins
InitCb ==
  [shader |-> "none", dirty |-> {}, tls_size |-> 0, tls_desc |-> 0,
   relative_sync_point |-> [q \in Subqueues |-> 0],
   driver_set |-> [dev_addr |-> 0, size |-> 0, descs |-> <<>>],
   res_table |-> 0, res_table_driver_set |-> 0, push_uniforms |-> 0,
   error |-> "VK_SUCCESS",
   call |-> NewCall("none", NoInfo, 0, FALSE)]

\* the compute subqueue of the GPU with the stream it is given to execute:
\* pc is the next instruction, iter_sb the scoreboard iteration kept in the
\* subqueue context, sel the scoreboard slot that asynchronous jobs signal,
\* reg_iter / sync_addr / add_val the registers the epilogue uses, active
\* whether the instructions at pc are executed (outside a case that was not
\* selected), issued the slot of each job in issue order, done the finished
\* jobs, adds the deferred sync adds in issue order, fired those that took
\* effect, syncobj the sync objects of the subqueues, ends the position of
\* the last instruction of each dispatch
GpuStart(stream, ends, iter) ==
  [stream |-> stream, ends |-> ends, pc |-> 1, iter_sb |-> iter, sel |-> iter,
   reg_iter |-> 0, sync_addr |-> 0, add_val |-> 0, active |-> TRUE,
   issued |-> <<>>, done |-> {}, adds |-> <<>>, fired |-> {},
   syncobj |-> [q \in Subqueues |-> 0]]

\* no uniform register value is being packed
NoFau == [state |-> "none", push_uniforms |-> 0, total_count |-> 0,
          fau_ptr |-> 0]

\* no buffer or image exists
NoHost == [kind |-> "none"]

Init ==
  /\ cb = InitCb
  /\ pre = cb
  /\ gpu = GpuStart(<<>>, <<>>, 0)
  /\ fau = NoFau
  /\ host = NoHost
  /\ build \in [pan_arch : {10, 11}, ndebug : BOOLEAN]
  /\ crashed = FALSE
  /\ hist = [ncalls |-> 0, ndone |-> 0, max_tls |-> 0, srt |-> 0]

\* the command buffer as a call finds it.  Only the dispatch entry points
\* keep a record of the call; a bind or push call erases the last one.
Enter(kind, info, sysvals_changed) ==
  [cb EXCEPT !.call = NewCall(kind, info,
                              IF kind = "none" THEN 0 ELSE hist.ncalls + 1,
                              sysvals_changed)]

\* the command buffer as a bind or push call leaves the record of the last call
Forget == Enter("none", NoInfo, FALSE)

Done(c) == c.call.outcome = "ok"

\* the call was given its per-job TSD and, if it asked for one, its WLS block
PastWls(c) ==
  /\ "tsd" \in {c.call.allocs[i] : i \in 1..Len(c.call.allocs)}
  /\ c.call.failed_at # "wls"

\* positions in the instructions of call c of the loads of the SRT register
SrtMoves(c) ==
  {i \in 1..Len(c.call.emitted) :
     c.call.emitted[i].op = "move64" /\ c.call.emitted[i].a = "SRT_0"}

\* the value of the SRT register once the instructions recorded up to call c
\* have run: that of the last load in c, or the value before c
SrtAfter(c, before) ==
  IF SrtMoves(c) = {} THEN before
  ELSE c.call.emitted[CHOOSE i \in SrtMoves(c) :
                        \A j \in SrtMoves(c) : j <= i].v

\* bookkeeping of a dispatch entry-point call whose shader is sh: calls made,
\* calls that ran to their end, the largest TLS size among the shaders of
\* the calls that were given their TSD and WLS block, and the value that the
\* instructions recorded so far leave in the SRT register
Account(c, sh) ==
  [ncalls |-> hist.ncalls + 1,
   ndone |-> hist.ndone + (IF Done(c) THEN 1 ELSE 0),
   max_tls |-> IF PastWls(c) THEN Max2(hist.max_tls, sh.tls_size)
               ELSE hist.max_tls,
   srt |-> SrtAfter(c, hist.srt)]

\* vkCmdBindPipeline / vkCmdBindShadersEXT for the compute stage, by contract.
\* Bind and push calls are explored while a dispatch can still follow them.
BindShader(s) ==
  /\ ~crashed
  /\ hist.ncalls < MaxDispatches
  /\ s # cb.shader
  /\ cb' = compute_state_set_dirty([Forget EXCEPT !.shader = s],
                                    "CS")
  /\ pre' = cb'
  /\ UNCHANGED <<build, crashed, hist, gpu, fau, host>>

\* vkCmdBindDescriptorSets for the compute bind point, by contract
BindDescriptorSets ==
  /\ ~crashed
  /\ hist.ncalls < MaxDispatches
  /\ ~compute_state_dirty(cb, "DESC_STATE")
  /\ cb' = compute_state_set_dirty(Forget, "DESC_STATE")
  /\ pre' = cb'
  /\ UNCHANGED <<build, crashed, hist, gpu, fau, host>>

\* vkCmdPushConstants, by contract
PushConstants ==
  /\ ~crashed
  /\ hist.ncalls < MaxDispatches
  /\ ~compute_state_dirty(cb, "PUSH_UNIFORMS")
  /\ cb' = compute_state_set_dirty(Forget, "PUSH_UNIFORMS")
  /\ pre' = cb'
  /\ UNCHANGED <<build, crashed, hist, gpu, fau, host>>

DispatchFailures == (AllocSteps \ {"precomp_push_uniforms"}) \cup {"none"}

\* cmd_prepare_dispatch_sysvals runs, and can change a sysval, only in a call
\* in which no earlier step ran out of memory
SysvalsReached(f) == f \notin {"tsd", "wls", "tls_desc", "push_descs"}

CmdDispatchBase ==
  /\ ~crashed
  /\ hist.ncalls < MaxDispatches
  /\ \E counts \in WgCounts, f \in DispatchFailures, sys \in BOOLEAN :
       /\ sys => SysvalsReached(f)
       /\ pre' = Enter("CmdDispatchBase",
                       [wg_count |-> counts, buffer_dev_addr |-> 0], sys)
       /\ cb' = cmd_dispatch(pre', pre'.call.info, f, sys, build.pan_arch)
       /\ hist' = Account(cb', Shader(cb.shader))
  /\ UNCHANGED <<build, crashed, gpu, fau, host>>

CmdDispatchIndirect ==
  /\ ~crashed
  /\ hist.ncalls < MaxDispatches
  /\ \E buffer_gpu \in BufferAddrs, f \in DispatchFailures,
        sys \in BOOLEAN :
       /\ sys => SysvalsReached(f)
       /\ pre' = Enter("CmdDispatchIndirect",
                       [wg_count |-> <<0, 0, 0>>,
                        buffer_dev_addr |-> buffer_gpu], sys)
       /\ cb' = cmd_dispatch(pre', pre'.call.info, f, sys, build.pan_arch)
       /\ hist' = Account(cb', Shader(cb.shader))
  /\ UNCHANGED <<build, crashed, gpu, fau, host>>

PrecompFailures == {"precomp_push_uniforms", "tsd", "tls_desc", "none"}

DispatchPrecomp ==
  /\ ~crashed
  /\ hist.ncalls < MaxDispatches
  /\ \E grid \in PrecompGrids, data_size \in DataSizes,
        barrier \in {"PANLIB_BARRIER_NONE", "PANLIB_BARRIER_JM_BARRIER"},
        f \in PrecompFailures :
       /\ pre' = Enter("dispatch_precomp",
                       [wg_count |-> grid, buffer_dev_addr |-> 0], FALSE)
       /\ cb' = dispatch_precomp(pre', grid, barrier, 0, data_size, f, build)
       /\ hist' = Account(cb', Shader(precomp_cache_get(0)))
       /\ crashed' = (cb'.call.outcome \in {"assert", "segv"})
  /\ UNCHANGED <<build, gpu, fau, host>>

Next ==
  \/ \E s \in ShaderIds \ {"none"} : BindShader(s)
  \/ BindDescriptorSets
  \/ PushConstants
  \/ CmdDispatchBase
  \/ CmdDispatchIndirect
  \/ DispatchPrecomp

Spec == Init /\ [][Next]_vars

-----------------------------------------------------------------------------
(* Execution of a recorded stream by the compute subqueue.  The command     *)
(* stream front end and the scoreboard are hardware: they are modelled by   *)
(* the contract the driver relies on.  Instructions execute in emission     *)
(* order; a run-compute starts a job that completes at any later time and   *)
(* occupies the selected scoreboard slot until then; a deferred sync add    *)
(* takes effect at any time at which no job occupies the slot it waits on.  *)

\* number of iteration slots of the scoreboard (CASE(0) .. CASE(4))
PANVK_SB_ITER_COUNT == 5

Slots == 0..(PANVK_SB_ITER_COUNT - 1)

\* the dispatch entry points a stream is recorded with
RecordKinds == {"CmdDispatchBase", "CmdDispatchIndirect", "dispatch_precomp"}

\* one call of an entry point of kind kind, the seqno-th of the recording,
\* with every allocation succeeding
RecordCall(c, kind, seqno, bld) ==
  IF kind = "dispatch_precomp"
  THEN dispatch_precomp(
         [c EXCEPT !.call = NewCall(kind, [wg_count |-> <<2, 3, 1>>,
                                           buffer_dev_addr |-> 0],
                                    seqno, FALSE)],
         <<2, 3, 1>>, "PANLIB_BARRIER_NONE", 0, 8, "none", bld)
  ELSE With([wg_count |-> IF kind = "CmdDispatchBase" THEN <<4, 1, 1>>
                          ELSE <<0, 0, 0>>,
             buffer_dev_addr |-> IF kind = "CmdDispatchBase" THEN 0 ELSE 64],
            LAMBDA info :
              cmd_dispatch([c EXCEPT !.call = NewCall(kind, info, seqno, FALSE)],
                           info, "none", FALSE, bld.pan_arch))

RECURSIVE Recorded(_, _, _, _, _)
\* the command buffer, the stream and the ends of the dispatches after the
\* calls kinds[k..] are recorded on command buffer c after stream
Recorded(c, stream, ends, kinds, bld) ==
  IF Len(ends) = Len(kinds)
  THEN [cb |-> c, stream |-> stream, ends |-> ends]
  ELSE With(RecordCall(c, kinds[Len(ends) + 1], Len(ends) + 1, bld),
            LAMBDA c1 :
              Recorded(c1, stream \o c1.call.emitted,
                       Append(ends, Len(stream) + Len(c1.call.emitted)),
                       kinds, bld))

\* the command buffer with shader B bound, as BindShader leaves it
BoundCb == compute_state_set_dirty([InitCb EXCEPT !.shader = "B"], "CS")

\* the jobs that occupy scoreboard slot s
Outstanding(g, s) ==
  {j \in 1..Len(g.issued) : g.issued[j] = s /\ j \notin g.done}

NextSlot(g) == (g.iter_sb + 1) % PANVK_SB_ITER_COUNT

\* cs_next_iter_sb waits until the next iteration slot is free
CanExec(g, ins) ==
  ins.op = "next_iter_sb" => Outstanding(g, NextSlot(g)) = {}

\* the effect of one instruction on the subqueue
Exec(g, ins) ==
  CASE ins.op = "next_iter_sb" ->
         [g EXCEPT !.iter_sb = NextSlot(g), !.sel = NextSlot(g)]
    [] ins.op = "run_compute" ->
         [g EXCEPT !.issued = Append(@, g.sel)]
    [] ins.op \in {"load", "load64"} /\ ins.a = "sync_addr" ->
         [g EXCEPT !.sync_addr = 0,
                   !.reg_iter = IF ins.w = 3 THEN g.iter_sb ELSE @]
    [] ins.op = "add64" /\ ins.a = "sync_addr" ->
         [g EXCEPT !.sync_addr = @ + ins.v]
    [] ins.op = "move64" /\ ins.a = "add_val" ->
         [g EXCEPT !.add_val = ins.v]
    [] ins.op = "case" ->
         [g EXCEPT !.active = (g.reg_iter = ins.v)]
    [] ins.op = "match_end" ->
         [g EXCEPT !.active = TRUE]
    [] ins.op = "sync64_add" /\ g.active ->
         [g EXCEPT !.adds =
            Append(@, [addr |-> g.sync_addr, val |-> g.add_val,
                       wait |-> IF ins.b = "defer_indirect" THEN g.sel
                                ELSE ins.w])]
    [] OTHER -> g

ExecInit ==
  /\ build \in [pan_arch : {10, 11}, ndebug : {FALSE}]
  /\ crashed = FALSE
  /\ \E n \in 1..MaxJobs, iter \in Slots :
       \E kinds \in [1..n -> RecordKinds] :
         With(Recorded(BoundCb, <<>>, <<>>, kinds, build), LAMBDA r :
           /\ cb = r.cb
           /\ gpu = GpuStart(r.stream, r.ends, iter))
  /\ pre = cb
  /\ hist = [ncalls |-> Len(gpu.ends), ndone |-> Len(gpu.ends),
             max_tls |-> cb.tls_size,
             srt |-> SrtAfter([call |-> [emitted |-> gpu.stream]], 0)]
  /\ fau = NoFau
  /\ host = NoHost

\* the subqueue executes its next instruction
ExecStep ==
  /\ gpu.pc <= Len(gpu.stream)
  /\ CanExec(gpu, gpu.stream[gpu.pc])
  /\ gpu' = [Exec(gpu, gpu.stream[gpu.pc]) EXCEPT !.pc = gpu.pc + 1]
  /\ UNCHANGED <<cb, pre, build, crashed, hist, fau, host>>

\* a job completes: its memory effects are done and its slot is released
JobDone ==
  /\ \E j \in 1..Len(gpu.issued) :
       /\ j \notin gpu.done
       /\ gpu' = [gpu EXCEPT !.done = @ \cup {j}]
  /\ UNCHANGED <<cb, pre, build, crashed, hist, fau, host>>

\* a deferred sync add takes effect once the slot it waits on is free
SyncAddFires ==
  /\ \E k \in 1..Len(gpu.adds) :
       /\ k \notin gpu.fired
       /\ Outstanding(gpu, gpu.adds[k].wait) = {}
       /\ gpu' = [gpu EXCEPT !.fired = @ \cup {k},
                             !.syncobj[gpu.adds[k].addr] = @ + gpu.adds[k].val]
  /\ UNCHANGED <<cb, pre, build, crashed, hist, fau, host>>

ExecNext == ExecStep \/ JobDone \/ SyncAddFires

ExecSpec == ExecInit /\ [][ExecNext]_vars

-----------------------------------------------------------------------------
(* The uniform register value on its own: fau_ptr applied to every pair of  *)
(* a push-uniform address and a uniform count, in range and out of range.   *)

\* width of the count field that the shift leaves in the register
FauCountBits == U64Bits - FauCountShift

\* addresses that fit below the count field, and some that do not
FauAddrs ==
  0..(2^FauCountShift - 1) \cup {2^FauCountShift, 2^FauCountShift + 5,
                                 2^(U64Bits - 1) + 3}

\* counts that fit the count field, and some that do not
FauCounts == 0..(2^FauCountBits - 1) \cup {2^FauCountBits, 2^FauCountBits + 3}

\* sizes of the argument block of a precompiled kernel
FauDataSizes == {0, 8, 12}

FauInit ==
  /\ cb = InitCb
  /\ pre = cb
  /\ build \in [pan_arch : {10}, ndebug : {FALSE}]
  /\ crashed = FALSE
  /\ hist = [ncalls |-> 0, ndone |-> 0, max_tls |-> 0, srt |-> 0]
  /\ gpu = GpuStart(<<>>, <<>>, 0)
  /\ host = NoHost
  /\ fau \in [state : {"operands"}, push_uniforms : FauAddrs,
              total_count : FauCounts, fau_ptr : {0}]

\* cmd_dispatch, lines 203-207: the count is the shader's fau.total_count
PackDispatchFau ==
  /\ fau.state = "operands"
  /\ fau' = [fau EXCEPT !.state = "packed",
                        !.fau_ptr = fau_ptr(fau.push_uniforms,
                                            fau.total_count)]
  /\ UNCHANGED <<cb, pre, build, crashed, hist, gpu, host>>

\* dispatch_precomp, lines 74-77: the count is that of the 8-byte words of
\* the sysvals and the argument block
PackPrecompFau ==
  /\ fau.state = "operands"
  /\ \E data_size \in FauDataSizes :
       With(DivRoundUp(BIFROST_PRECOMPILED_KERNEL_SYSVALS_SIZE + data_size, 8),
            LAMBDA fau_count :
              fau' = [fau EXCEPT !.state = "packed",
                                 !.total_count = fau_count,
                                 !.fau_ptr = fau_ptr(fau.push_uniforms,
                                                     fau_count)])
  /\ UNCHANGED <<cb, pre, build, crashed, hist, gpu, host>>

FauNext == PackDispatchFau \/ PackPrecompFau

FauSpec == FauInit /\ [][FauNext]_vars

-----------------------------------------------------------------------------
(* Indirect dispatches from a buffer whose GPU address is 0 *)

NullBufferFailures == {"none", "tsd", "res_table"}

\* vkCmdDispatchIndirect when panvk_buffer_gpu_ptr(buffer, offset) is 0
CmdDispatchIndirectNull ==
  /\ ~crashed
  /\ hist.ncalls < MaxDispatches
  /\ \E f \in NullBufferFailures :
       /\ pre' = Enter("CmdDispatchIndirect",
                       [wg_count |-> <<0, 0, 0>>, buffer_dev_addr |-> 0],
                       FALSE)
       /\ cb' = cmd_dispatch(pre', pre'.call.info, f, FALSE, build.pan_arch)
       /\ hist' = Account(cb', Shader(cb.shader))
  /\ UNCHANGED <<build, crashed, gpu, fau, host>>

KindNext ==
  \/ \E s \in ShaderIds \ {"none"} : BindShader(s)
  \/ CmdDispatchBase
  \/ CmdDispatchIndirect
  \/ CmdDispatchIndirectNull

KindSpec == Init /\ [][KindNext]_vars

-----------------------------------------------------------------------------
(* Buffers: binding memory and the host mapping of index buffers           *)
(* (panvk_buffer.c)                                                        *)

\* getpagesize()
PageSize == 2^PageShift

RECURSIVE BitAnd(_, _)
BitAnd(a, b) ==
  IF a = 0 \/ b = 0 THEN 0
  ELSE (a % 2) * (b % 2) + 2 * BitAnd(a \div 2, b \div 2)

\* ~x of an unsigned value of U64Bits bits
BitNot(x) == (2^U64Bits - 1) - x

ALIGN_POT(x, pot) == BitAnd(x + pot - 1, BitNot(pot - 1))

BufIds == {1, 2}

\* buffer->vk.size
BufSize(b) == IF b = 1 THEN PageSize ELSE 1

\* pBindInfos[i].memoryOffset: multiples of the alignment of the memory
\* requirements, several of which lie in one page
BufOffsets == {0, 1, PageSize, PageSize + 1}

\* mem->addr.dev
MemDevAddr == 2^(U64Bits - 2)

MAP_FAILED == 0 - 1

\* the pages of the CPU address range [start, start + len)
PagesOf(start, len) ==
  IF len <= 0 THEN {}
  ELSE (start \div PageSize)..((start + len - 1) \div PageSize)

\* pan_kmod_bo_mmap(bo, offset, len, ...), by contract: maps the pages that
\* hold len bytes of the object from offset, at a page-aligned CPU address
\* that the kernel chooses (here one region per buffer), or fails
pan_kmod_bo_mmap(b, len, fails) ==
  IF fails THEN MAP_FAILED ELSE 8 * b * PageSize

\* buffer->host_ptr = map_addr + (offset & pgsize)
host_ptr_of(map_addr, offset) == map_addr + BitAnd(offset, PageSize)

\* one iteration of the loop of panvk_BindBufferMemory2, lines 64-102
BindBufferOne(h, info, arch) ==
  With([h EXCEPT !.bufs[info.buffer].device_address =
                    MemDevAddr + info.memoryOffset], LAMBDA h1 :
    IF arch < 9 /\ h.bufs[info.buffer].index
    THEN
      With(info.memoryOffset, LAMBDA offset :
      With(BitAnd(offset, BitNot(PageSize - 1)), LAMBDA map_start :
      With(offset + BufSize(info.buffer), LAMBDA map_end :
      With(pan_kmod_bo_mmap(info.buffer, map_end - map_start,
                            info.mmap_fails), LAMBDA map_addr :
        IF map_addr = MAP_FAILED
        THEN [host |-> h1, result |-> "VK_ERROR_OUT_OF_HOST_MEMORY"]
        ELSE [host |-> [h1 EXCEPT
                          !.bufs[info.buffer].host_ptr =
                             host_ptr_of(map_addr, offset),
                          !.vm = @ \cup PagesOf(map_addr, map_end - map_start),
                          !.maps[info.buffer] =
                             [addr |-> map_addr, len |-> map_end - map_start]],
              result |-> "VK_SUCCESS"]))))
    ELSE [host |-> h1, result |-> "VK_SUCCESS"])

\* what the caller reads in the VkBindMemoryStatus of an element
StatusOf(info, result) == IF info.status THEN result ELSE "absent"

\* variant: the loop returns at the first element that fails
RECURSIVE BindBufferLoop_StopsAtFailure(_, _, _, _, _)
BindBufferLoop_StopsAtFailure(h, infos, i, result, arch) ==
  IF i > Len(infos) \/ result # "VK_SUCCESS"
  THEN [h EXCEPT !.call.result = result]
  ELSE
    With(BindBufferOne(h, infos[i], arch), LAMBDA r :
      BindBufferLoop_StopsAtFailure(
        [r.host EXCEPT !.call.status = Append(@, StatusOf(infos[i], r.result)),
                       !.call.outcomes = Append(@, r.result)],
        infos, i + 1, r.result, arch))

\* the loop of panvk_BindBufferMemory2 from element i, lines 62-104
RECURSIVE BindBufferLoop(_, _, _, _, _)
BindBufferLoop(h, infos, i, result, arch) ==
  IF i > Len(infos)
  THEN [h EXCEPT !.call.result = result]
  ELSE
    With(BindBufferOne(h, infos[i], arch), LAMBDA r :
      BindBufferLoop(
        [r.host EXCEPT !.call.status = Append(@, StatusOf(infos[i], r.result)),
                       !.call.outcomes = Append(@, r.result)],
        infos, i + 1,
        IF r.result # "VK_SUCCESS" THEN r.result ELSE result, arch))

\* VkImageFormatProperties with every member zero
ZeroProps ==
  [maxExtent |-> <<0, 0, 0>>, maxMipLevels |-> 0, maxArrayLayers |-> 0,
   sampleCounts |-> 0, maxResourceSize |-> 0]

\* the record of a call: its elements, the status and (history) the outcome
\* of each element processed, the value returned and, for a format query,
\* the properties written and (history) the check that rejected the request
HostCall(kind, infos) ==
  [kind |-> kind, infos |-> infos, status |-> <<>>, outcomes |-> <<>>,
   result |-> "VK_SUCCESS", before |-> {}, props |-> ZeroProps,
   rejected |-> "none"]

panvk_BindBufferMemory2(h, infos, arch) ==
  BindBufferLoop([h EXCEPT !.call = HostCall("BindBufferMemory2", infos)],
                 infos, 1, "VK_SUCCESS", arch)

\* lines 129-151; `before` keeps (history) the pages mapped at entry
panvk_DestroyBuffer(h, b) ==
  With([h EXCEPT !.call = [HostCall("DestroyBuffer", <<[buffer |-> b]>>)
                             EXCEPT !.before = h.vm],
                 !.bufs[b].alive = FALSE], LAMBDA h1 :
    IF h.bufs[b].host_ptr # 0
    THEN
      With(BitAnd(h.bufs[b].host_ptr, BitNot(PageSize - 1)), LAMBDA map_start :
      With(ALIGN_POT(h.bufs[b].host_ptr + BufSize(b), PageSize),
           LAMBDA map_end :
        [h1 EXCEPT !.vm = @ \ PagesOf(map_start, map_end - map_start),
                   !.bufs[b].host_ptr = 0]))
    ELSE h1)

ImgIds == {1, 2}

\* what binding reads of an image: image 1 has two AFBC planes bound
\* together, image 2 two linear planes bound one by one (disjoint)
ImgInfo(i) ==
  IF i = 1 THEN [plane_count |-> 2, disjoint |-> FALSE, afbc |-> TRUE]
  ELSE [plane_count |-> 2, disjoint |-> TRUE, afbc |-> FALSE]

\* no buffer or image is bound, nothing is mapped, no call was made
HostStart(index) ==
  [bufs |-> [b \in BufIds |->
               [index |-> index[b], device_address |-> 0, host_ptr |-> 0,
                alive |-> TRUE]],
   vm |-> {},
   maps |-> [b \in BufIds |-> [addr |-> 0, len |-> 0]],
   imgs |-> [i \in ImgIds |-> [mem |-> 0, base |-> <<0, 0>>]],
   call |-> HostCall("none", <<>>)]

HostInit ==
  /\ cb = InitCb
  /\ pre = cb
  /\ gpu = GpuStart(<<>>, <<>>, 0)
  /\ fau = NoFau
  /\ crashed = FALSE
  /\ hist = [ncalls |-> 0, ndone |-> 0, max_tls |-> 0, srt |-> 0]
  /\ build \in [pan_arch : {7, 10}, ndebug : {FALSE}]
  /\ \E index \in [BufIds -> BOOLEAN] : host = HostStart(index)

BufferBindAttrs ==
  [memoryOffset : BufOffsets, status : BOOLEAN, mmap_fails : BOOLEAN]

\* pBindInfos of vkBindBufferMemory2: buffers bs with attributes attrs
BufferBindInfos(bs, attrs) ==
  [i \in 1..Len(bs) |->
     [buffer |-> bs[i], memoryOffset |-> attrs[i].memoryOffset,
      status |-> attrs[i].status, mmap_fails |-> attrs[i].mmap_fails]]

\* vkBindBufferMemory2 on buffers that are not bound yet
BindBufferMemory2 ==
  /\ \E n \in 1..MaxBinds : \E bs \in [1..n -> BufIds] :
       /\ \A i \in 1..n :
            /\ host.bufs[bs[i]].alive
            /\ host.bufs[bs[i]].device_address = 0
       /\ \A i, j \in 1..n : i # j => bs[i] # bs[j]
       /\ \E attrs \in [1..n -> BufferBindAttrs] :
            /\ \A i \in 1..n :
                 attrs[i].mmap_fails =>
                   (build.pan_arch < 9 /\ host.bufs[bs[i]].index)
            /\ host' = panvk_BindBufferMemory2(host, BufferBindInfos(bs, attrs),
                                               build.pan_arch)
  /\ UNCHANGED <<cb, pre, build, crashed, hist, gpu, fau>>

\* vkDestroyBuffer
DestroyBuffer ==
  /\ \E b \in BufIds :
       /\ host.bufs[b].alive
       /\ host' = panvk_DestroyBuffer(host, b)
  /\ UNCHANGED <<cb, pre, build, crashed, hist, gpu, fau>>

HostNext ==
  \/ BindBufferMemory2
  \/ DestroyBuffer

HostSpec == HostInit /\ [][HostNext]_vars

-----------------------------------------------------------------------------
(* Images: binding memory (panvk_image.c)                                  *)

\* bind_info->memoryOffset
ImgOffsets == {PageSize}

\* panvk_image_plane_bind, lines 405-445: the AFBC headers are reset
\* through a transient mapping of the memory object, which can fail
panvk_image_plane_bind(h, img, plane, offset, fails) ==
  With([h EXCEPT !.imgs[img].base[plane] = MemDevAddr + offset], LAMBDA h1 :
    IF ImgInfo(img).afbc /\ fails
    THEN [host |-> h1, result |-> "VK_ERROR_OUT_OF_HOST_MEMORY"]
    ELSE [host |-> h1, result |-> "VK_SUCCESS"])

\* the loop over the planes of panvk_image_bind from plane, lines 668-677
RECURSIVE BindPlanes(_, _, _)
BindPlanes(h, info, plane) ==
  IF plane > ImgInfo(info.image).plane_count
  THEN [host |-> h, result |-> "VK_SUCCESS"]
  ELSE
    With(panvk_image_plane_bind(h, info.image, plane, info.memoryOffset,
                                info.mmap_fails = plane), LAMBDA r :
      IF r.result # "VK_SUCCESS" THEN r
      ELSE BindPlanes(r.host, info, plane + 1))

\* lines 635-678
panvk_image_bind(h, info) ==
  With([h EXCEPT !.imgs[info.image].mem = 1], LAMBDA h1 :
    IF ImgInfo(info.image).disjoint
    THEN panvk_image_plane_bind(h1, info.image, info.plane, info.memoryOffset,
                                info.mmap_fails = info.plane)
    ELSE BindPlanes(h1, info, 1))

\* the loop of panvk_BindImageMemory2 from element i, lines 687-697
RECURSIVE BindImageLoop(_, _, _, _)
BindImageLoop(h, infos, i, result) ==
  IF i > Len(infos)
  THEN [h EXCEPT !.call.result = result]
  ELSE
    With(panvk_image_bind(h, infos[i]), LAMBDA r :
      BindImageLoop(
        [r.host EXCEPT !.call.status = Append(@, StatusOf(infos[i], r.result)),
                       !.call.outcomes = Append(@, r.result)],
        infos, i + 1,
        IF r.result # "VK_SUCCESS" THEN r.result ELSE result))

panvk_BindImageMemory2(h, infos) ==
  BindImageLoop([h EXCEPT !.call = HostCall("BindImageMemory2", infos)],
                infos, 1, "VK_SUCCESS")

\* the planes that one element binds: with VkBindImagePlaneMemoryInfo one
\* plane of a disjoint image, without it (plane 0) a whole image
ImagePlanes == {<<1, 0>>, <<2, 1>>, <<2, 2>>}

ImageBindAttrs ==
  [memoryOffset : ImgOffsets, status : BOOLEAN, mmap_fails : 0..2]

\* pBindInfos of vkBindImageMemory2: planes ps with attributes attrs
ImageBindInfos(ps, attrs) ==
  [i \in 1..Len(ps) |->
     [image |-> ps[i][1], plane |-> ps[i][2],
      memoryOffset |-> attrs[i].memoryOffset, status |-> attrs[i].status,
      mmap_fails |-> attrs[i].mmap_fails]]

\* the planes that element p binds are not bound yet
Unbound(p) ==
  IF p[2] = 0 THEN host.imgs[p[1]].mem = 0
  ELSE host.imgs[p[1]].base[p[2]] = 0

\* vkBindImageMemory2 on images and planes that are not bound yet; the
\* mapping of a plane can fail only where there is one
BindImageMemory2 ==
  /\ \E n \in 1..MaxBinds : \E ps \in [1..n -> ImagePlanes] :
       /\ \A i \in 1..n : Unbound(ps[i])
       /\ \A i, j \in 1..n : i # j => ps[i] # ps[j]
       /\ \E attrs \in [1..n -> ImageBindAttrs] :
            /\ \A i \in 1..n :
                 attrs[i].mmap_fails # 0 =>
                   /\ ImgInfo(ps[i][1]).afbc
                   /\ ps[i][2] = 0
            /\ host' = panvk_BindImageMemory2(host, ImageBindInfos(ps, attrs))
  /\ UNCHANGED <<cb, pre, build, crashed, hist, gpu, fau>>

BindNext ==
  \/ BindBufferMemory2
  \/ BindImageMemory2

\* a device older than v9 with two index buffers and two images, all unbound
BindInit ==
  /\ cb = InitCb
  /\ pre = cb
  /\ gpu = GpuStart(<<>>, <<>>, 0)
  /\ fau = NoFau
  /\ crashed = FALSE
  /\ hist = [ncalls |-> 0, ndone |-> 0, max_tls |-> 0, srt |-> 0]
  /\ build \in [pan_arch : {7}, ndebug : {FALSE}]
  /\ host = HostStart([b \in BufIds |-> TRUE])

BindSpec == BindInit /\ [][BindNext]_vars

-----------------------------------------------------------------------------
(* Image format queries (panvk_image.c)                                    *)

\* UINT32_MAX, scaled as U64Bits is
UINT32_MAX == 2^(U64Bits \div 2) - 1

ImageFormats ==
  {"R8G8B8A8_UNORM", "G8_B8R8_2PLANE_420_UNORM", "R64_SFLOAT"}

\* what the query reads of a format: vk_format_get_plane_count,
\* vk_format_get_ycbcr_info and the intersection over the planes of
\* get_image_format_features; the last format has no feature
FormatInfo(format) ==
  CASE format = "R8G8B8A8_UNORM" ->
         [plane_count |-> 1, ycbcr |-> FALSE,
          features |-> {"SAMPLED_IMAGE", "COLOR_ATTACHMENT"}]
    [] format = "G8_B8R8_2PLANE_420_UNORM" ->
         [plane_count |-> 2, ycbcr |-> TRUE, features |-> {"SAMPLED_IMAGE"}]
    [] format = "R64_SFLOAT" ->
         [plane_count |-> 1, ycbcr |-> FALSE, features |-> {}]

\* VkPhysicalDeviceImageFormatInfo2 with the handle type of the chained
\* VkPhysicalDeviceExternalImageFormatInfo ("0": none or handleType 0)
ImageFormatInfos ==
  [format : ImageFormats,
   type : {"VK_IMAGE_TYPE_2D", "VK_IMAGE_TYPE_3D"},
   tiling : {"VK_IMAGE_TILING_OPTIMAL"},
   flags : SUBSET {"ALIAS", "DISJOINT", "SPARSE_BINDING", "SPARSE_RESIDENCY"},
   usage : {{"SAMPLED"}, {"SAMPLED", "HOST_TRANSFER"}},
   handleType : {"0", "OPAQUE_FD", "OPAQUE_WIN32"}]

\* get_image_format_properties, lines 1526-1700, for the tilings, types,
\* flags and usages of ImageFormatInfos
get_image_format_properties(info) ==
  IF \/ FormatInfo(info.format).features = {}
     \/ FormatInfo(info.format).ycbcr /\ info.type # "VK_IMAGE_TYPE_2D"
     \/ "SAMPLED" \in info.usage
          /\ "SAMPLED_IMAGE" \notin FormatInfo(info.format).features
  THEN [result |-> "VK_ERROR_FORMAT_NOT_SUPPORTED", props |-> ZeroProps]
  ELSE
    [result |-> "VK_SUCCESS",
     props |->
       [maxExtent |-> IF info.type = "VK_IMAGE_TYPE_2D"
                      THEN <<2^U64Bits, 2^U64Bits, 1>>
                      ELSE <<2^(U64Bits \div 2), 2^(U64Bits \div 2),
                             2^(U64Bits \div 2)>>,
        maxMipLevels |-> IF FormatInfo(info.format).ycbcr THEN 1
                         ELSE IF info.type = "VK_IMAGE_TYPE_2D"
                         THEN U64Bits + 1 ELSE (U64Bits \div 2) + 1,
        maxArrayLayers |-> IF info.type = "VK_IMAGE_TYPE_2D"
                           THEN 2^U64Bits ELSE 1,
        sampleCounts |->
          IF /\ info.tiling = "VK_IMAGE_TILING_OPTIMAL"
             /\ info.type = "VK_IMAGE_TYPE_2D"
             /\ ~FormatInfo(info.format).ycbcr
             /\ "COLOR_ATTACHMENT" \in FormatInfo(info.format).features
          THEN 5 ELSE 1,
        maxResourceSize |-> UINT32_MAX]]

\* panvk_get_external_image_format_properties, lines 1702-1757
panvk_get_external_image_format_properties(info, handleType) ==
  IF handleType \notin {"OPAQUE_FD", "DMA_BUF"}
  THEN "VK_ERROR_FORMAT_NOT_SUPPORTED"
  ELSE IF info.type # "VK_IMAGE_TYPE_2D"
  THEN "VK_ERROR_FORMAT_NOT_SUPPORTED"
  ELSE IF handleType # "OPAQUE_FD" /\ info.tiling # "VK_IMAGE_TILING_LINEAR"
  THEN "VK_ERROR_FORMAT_NOT_SUPPORTED"
  ELSE "VK_SUCCESS"

\* the label fail, lines 1895-1907
QueryFail(result, props, why) ==
  [result |-> result,
   props |-> IF result = "VK_ERROR_FORMAT_NOT_SUPPORTED" THEN ZeroProps
             ELSE props,
   rejected |-> why]

\* lines 1876-1893: the checks of the flags, entered with result and props
QueryFlags(info, result, props) ==
  IF /\ FormatInfo(info.format).plane_count = 1
     /\ "ALIAS" \notin info.flags
     /\ "DISJOINT" \in info.flags
  THEN QueryFail(result, props, "disjoint")
  ELSE IF /\ FormatInfo(info.format).ycbcr
          /\ info.flags \cap {"SPARSE_BINDING", "SPARSE_RESIDENCY"} # {}
  THEN QueryFail(result, props, "ycbcr_sparse")
  ELSE IF "SPARSE_BINDING" \in info.flags /\ "HOST_TRANSFER" \in info.usage
  THEN QueryFail(result, props, "sparse_host_transfer")
  ELSE [result |-> "VK_SUCCESS", props |-> props, rejected |-> "none"]

\* lines 1759-1908
panvk_GetPhysicalDeviceImageFormatProperties2(info) ==
  With(get_image_format_properties(info), LAMBDA base :
    IF base.result # "VK_SUCCESS"
    THEN [result |-> base.result, props |-> base.props, rejected |-> "format"]
    ELSE IF info.handleType # "0"
    THEN
      With(panvk_get_external_image_format_properties(info, info.handleType),
           LAMBDA result :
        IF result # "VK_SUCCESS"
        THEN QueryFail(result, base.props, "external")
        ELSE QueryFlags(info, result,
                        [base.props EXCEPT !.maxMipLevels = 1,
                                           !.maxArrayLayers = 1,
                                           !.sampleCounts = 1]))
    ELSE QueryFlags(info, base.result, base.props))

\* vkGetPhysicalDeviceImageFormatProperties2
GetPhysicalDeviceImageFormatProperties2 ==
  /\ \E info \in ImageFormatInfos :
       With(panvk_GetPhysicalDeviceImageFormatProperties2(info), LAMBDA r :
         host' = [host EXCEPT
                    !.call = [HostCall("GetPhysicalDeviceImageFormatProperties2",
                                       <<info>>)
                                EXCEPT !.result = r.result, !.props = r.props,
                                       !.rejected = r.rejected]])
  /\ UNCHANGED <<cb, pre, build, crashed, hist, gpu, fau>>

QueryInit ==
  /\ cb = InitCb
  /\ pre = cb
  /\ gpu = GpuStart(<<>>, <<>>, 0)
  /\ fau = NoFau
  /\ crashed = FALSE
  /\ hist = [ncalls |-> 0, ndone |-> 0, max_tls |-> 0, srt |-> 0]
  /\ build \in [pan_arch : {10}, ndebug : {FALSE}]
  /\ host = HostStart([b \in BufIds |-> FALSE])

QueryNext == GetPhysicalDeviceImageFormatProperties2

QuerySpec == QueryInit /\ [][QueryNext]_vars

-----------------------------------------------------------------------------
(* Observations on the last call, read from cb (its exit state) and pre    *)
(* (its entry state)                                                       *)

IsCmdDispatch == cb.call.kind \in {"CmdDispatchBase", "CmdDispatchIndirect"}

\* the call stopped at a failed allocation / reached the end of cmd_dispatch
Failed == IsCmdDispatch /\ cb.call.outcome = "fail"
Succeeded == IsCmdDispatch /\ cb.call.outcome = "ok"

EntryShader == Shader(pre.shader)

ComputeSyncPoint(c) == c.relative_sync_point[PANVK_SUBQUEUE_COMPUTE]

\* positions in the instructions of the call of the instructions of one opcode
Emitted(op) ==
  {i \in 1..Len(cb.call.emitted) : cb.call.emitted[i].op = op}

\* positions of the move-immediate instructions into register reg
Moves(reg) ==
  {i \in 1..Len(cb.call.emitted) :
     /\ cb.call.emitted[i].op \in {"move32", "move64"}
     /\ cb.call.emitted[i].a = reg}

\* positions of the move-immediate instructions of value val into register reg
MovesOf(reg, val) == {i \in Moves(reg) : cb.call.emitted[i].v = val}

\* positions of the instructions that load a register from memory
Loads ==
  {i \in 1..Len(cb.call.emitted) : cb.call.emitted[i].op \in {"load", "load64"}}

JobSizeRegs == {"JOB_SIZE_X", "JOB_SIZE_Y", "JOB_SIZE_Z"}

\* the state besides the record of the call
Frame(c) == [c EXCEPT !.call = NewCall("none", NoInfo, 0, FALSE)]

-----------------------------------------------------------------------------
(* C1 *)

\* C1: the compute subqueue's relative sync point counts the dispatches that
\* reached their end: it is its initial value (0) plus the number of such
\* calls made so far, each call adds 1 if it reached the end of cmd_dispatch
\* and 0 otherwise, bind and push calls add nothing, and the other subqueues'
\* sync points do not move.
C1_SyncPointCountsDispatches ==
  /\ ComputeSyncPoint(cb) = hist.ndone
  /\ ComputeSyncPoint(cb) =
       ComputeSyncPoint(pre) + (IF cb.call.outcome = "ok" THEN 1 ELSE 0)
  /\ \A q \in Subqueues \ {PANVK_SUBQUEUE_COMPUTE} :
       cb.relative_sync_point[q] = 0

\* a successful dispatch that follows a failed one
C1_Witness ==
  /\ Succeeded
  /\ hist.ncalls = 2
  /\ hist.ndone = 1
  /\ ComputeSyncPoint(cb) = 1

-----------------------------------------------------------------------------
(* C2 *)

\* C2: a cmd_dispatch call that stops at a failed allocation cleans no
\* aspect that was dirty at entry, emits no sync add and does not advance the
\* relative sync point; when the failed allocation is the driver set's,
\* DESC_STATE stays dirty if it was and no run-compute instruction is emitted.
C2_FailureCleansNothing ==
  Failed =>
    /\ cb.call.failed_at \in DispatchFailures \ {"none"}
    /\ pre.dirty \subseteq cb.dirty
    /\ Emitted("sync64_add") = {}
    /\ ComputeSyncPoint(cb) = ComputeSyncPoint(pre)
    /\ cb.call.failed_at = "driver_set" =>
         /\ "DESC_STATE" \in pre.dirty => "DESC_STATE" \in cb.dirty
         /\ Emitted("run_compute") = {}

\* the driver-set allocation fails with every aspect dirty
C2_Witness ==
  /\ Failed
  /\ cb.call.failed_at = "driver_set"
  /\ pre.dirty = Aspects
  /\ cb.dirty = Aspects

-----------------------------------------------------------------------------
(* C3 *)

\* C3 as the specification states it, for the calls whose sysvals
\* preparation dirties nothing: a failing cmd_dispatch call exits with the
\* set of dirty aspects it was entered with.
C3_DirtyUntouchedOnFailure ==
  (Failed /\ ~cb.call.sysvals_changed) => cb.dirty = pre.dirty

\* C3, amended: a failing cmd_dispatch call cleans nothing, but may leave
\* more dirty than it found.  CS is dirty at exit iff it was at entry;
\* DESC_STATE is newly dirty only if CS was dirty at entry and the failure
\* came after prepare_driver_set rebuilt the driver set (push-uniform or
\* resource-table allocation), and then it is; PUSH_UNIFORMS is newly dirty
\* only if the sysvals preparation of the call dirtied it.
C3_FailureOnlyAddsDirt ==
  Failed =>
    /\ pre.dirty \subseteq cb.dirty
    /\ ("CS" \in cb.dirty) = ("CS" \in pre.dirty)
    /\ "DESC_STATE" \in cb.dirty \ pre.dirty =>
         /\ "CS" \in pre.dirty
         /\ "driver_set" \in cb.call.rebuilt
         /\ cb.call.failed_at \in {"push_uniforms", "res_table"}
    /\ "driver_set" \in cb.call.rebuilt => "DESC_STATE" \in cb.dirty
    /\ "PUSH_UNIFORMS" \in cb.dirty \ pre.dirty =>
         /\ cb.call.sysvals_changed
         /\ cb.call.failed_at \in {"driver_set", "push_uniforms", "res_table"}

\* only CS dirty at entry, the resource-table allocation fails, DESC_STATE is
\* dirty at exit
C3_Witness ==
  /\ Failed
  /\ ~cb.call.sysvals_changed
  /\ pre.dirty = {"CS"}
  /\ cb.call.failed_at = "res_table"
  /\ cb.dirty = {"CS", "DESC_STATE"}

-----------------------------------------------------------------------------
(* C4 *)

\* C4: a cmd_dispatch call that stops at a failed allocation appended no
\* instruction to the compute stream, whichever allocation failed.
C4_NoPartialDispatch ==
  Failed => cb.call.emitted = <<>>

\* the last failable step fails, for a shader and a state that would have
\* emitted the TLS pointer copy and every register load
C4_Witness ==
  /\ Failed
  /\ cb.call.failed_at = "res_table"
  /\ EntryShader.tls_size # 0
  /\ pre.dirty = Aspects
  /\ cb.call.emitted = <<>>

-----------------------------------------------------------------------------
(* C5 *)

\* C5: a direct or indirect dispatch with a shader whose program descriptor
\* address is 0 returns at once: nothing is allocated, nothing is emitted,
\* and the command buffer (sync points, tracked TLS size, dirty aspects,
\* recorded error, every other field) is as it was at entry.
C5_NoShaderIsNoOp ==
  (IsCmdDispatch /\ EntryShader.spd = 0) =>
    /\ cb.call.outcome = "noshader"
    /\ cb.call.allocs = <<>>
    /\ cb.call.failed_at = "none"
    /\ cb.call.emitted = <<>>
    /\ ComputeSyncPoint(cb) = ComputeSyncPoint(pre)
    /\ cb.tls_size = pre.tls_size
    /\ cb.dirty = pre.dirty
    /\ cb.error = pre.error
    /\ Frame(cb) = Frame(pre)

\* a dispatch without a program, entered with dirty aspects
C5_Witness ==
  /\ IsCmdDispatch
  /\ cb.call.outcome = "noshader"
  /\ pre.dirty = {"DESC_STATE", "PUSH_UNIFORMS"}
  /\ cb.error = "VK_SUCCESS"

-----------------------------------------------------------------------------
(* C6 *)

\* C6 as the specification states it, for the calls whose sysvals
\* preparation dirties nothing: with only CS dirty at entry DESC_STATE is not
\* made dirty and the driver set, the resource table and the SRT register are
\* not rebuilt or reloaded; with only DESC_STATE dirty the SPD and FAU
\* registers are not reloaded.
C6_AspectsIndependent ==
  (IsCmdDispatch /\ ~cb.call.sysvals_changed) =>
    /\ pre.dirty = {"CS"} =>
         /\ "DESC_STATE" \notin cb.dirty
         /\ cb.call.rebuilt \cap {"driver_set", "res_table"} = {}
         /\ Moves("SRT_0") = {}
    /\ pre.dirty = {"DESC_STATE"} =>
         /\ Moves("SPD_0") = {}
         /\ Moves("FAU_0") = {}

\* C6, amended: a dirty CS forces the descriptor-derived state: with only CS
\* dirty at entry a successful dispatch rebuilds the driver set and the
\* resource table and reloads SRT (and SPD), and DESC_STATE is dirty from the
\* driver set's rebuild on.  The other directions are independent: with only
\* DESC_STATE dirty SPD is not reloaded and CS stays clean, and the push
\* uniforms are rebuilt and FAU reloaded only if the sysvals preparation of
\* the call dirtied PUSH_UNIFORMS; with only PUSH_UNIFORMS dirty the push
\* descriptors, driver set and resource table are not rebuilt, SRT and SPD
\* are not reloaded and neither CS nor DESC_STATE becomes dirty.
C6_OnlyShaderForcesDescriptors ==
  IsCmdDispatch =>
    /\ (pre.dirty = {"CS"} /\ Succeeded) =>
         /\ {"driver_set", "res_table"} \subseteq cb.call.rebuilt
         /\ MovesOf("SRT_0", cb.res_table) # {}
         /\ MovesOf("SPD_0", EntryShader.spd) # {}
    /\ (pre.dirty = {"CS"} /\ Failed /\ "driver_set" \in cb.call.rebuilt) =>
         "DESC_STATE" \in cb.dirty
    /\ pre.dirty = {"DESC_STATE"} =>
         /\ Moves("SPD_0") = {}
         /\ "CS" \notin cb.dirty
         /\ ~cb.call.sysvals_changed =>
              /\ Moves("FAU_0") = {}
              /\ "push_uniforms" \notin cb.call.rebuilt
              /\ "PUSH_UNIFORMS" \notin cb.dirty
    /\ pre.dirty = {"PUSH_UNIFORMS"} =>
         /\ cb.call.rebuilt \subseteq {"push_uniforms"}
         /\ Moves("SRT_0") = {}
         /\ Moves("SPD_0") = {}
         /\ cb.dirty \cap {"CS", "DESC_STATE"} = {}

\* a successful dispatch entered with only CS dirty rebuilt the driver set
C6_Witness ==
  /\ Succeeded
  /\ ~cb.call.sysvals_changed
  /\ pre.dirty = {"CS"}
  /\ "driver_set" \in cb.call.rebuilt
  /\ Moves("SRT_0") # {}

-----------------------------------------------------------------------------
(* C7 *)

\* C7: a direct or indirect dispatch that reached its end leaves the three
\* aspects clean whatever was dirty at entry, and the instructions it
\* emitted were chosen from the dirty aspects before they were cleared: one
\* run-compute followed by the sync add, SRT and SPD loaded if CS was dirty,
\* SRT loaded with the resource table built over the current driver set if
\* DESC_STATE was dirty, FAU loaded if PUSH_UNIFORMS was dirty.
C7_CleanAfterSuccess ==
  Succeeded =>
    /\ cb.dirty = {}
    /\ Cardinality(Emitted("run_compute")) = 1
    /\ Emitted("sync64_add") # {}
    /\ \A i \in Emitted("sync64_add"), j \in Emitted("run_compute") : j < i
    /\ \A i \in Moves("SRT_0") \cup Moves("SPD_0") \cup Moves("FAU_0"),
          j \in Emitted("run_compute") : i < j
    /\ "CS" \in pre.dirty =>
         /\ MovesOf("SPD_0", EntryShader.spd) # {}
         /\ MovesOf("SRT_0", cb.res_table) # {}
    /\ "DESC_STATE" \in pre.dirty =>
         /\ MovesOf("SRT_0", cb.res_table) # {}
         /\ {"driver_set", "res_table"} \subseteq cb.call.rebuilt
         /\ cb.res_table_driver_set = cb.driver_set.dev_addr
    /\ "PUSH_UNIFORMS" \in pre.dirty =>
         /\ "push_uniforms" \in cb.call.rebuilt
         /\ MovesOf("FAU_0", fau_ptr(cb.push_uniforms,
                                     EntryShader.fau_total_count)) # {}

\* an indirect dispatch entered with every aspect dirty reached its end
C7_Witness ==
  /\ Succeeded
  /\ cb.call.kind = "CmdDispatchIndirect"
  /\ pre.dirty = Aspects
  /\ cb.dirty = {}

-----------------------------------------------------------------------------
(* C8 *)

\* the layout of a driver set rebuilt for shader cs
DriverSetLayout(ds, cs) ==
  /\ ds.dev_addr # 0
  /\ Len(ds.descs) = cs.dyn_bufs_count + 1
  /\ ds.descs[1] = "SAMPLER"
  /\ \A i \in 2..(cs.dyn_bufs_count + 1) : ds.descs[i] = "DYN_BUF"
  /\ ds.size = (cs.dyn_bufs_count + 1) * PANVK_DESCRIPTOR_SIZE

\* prepare_driver_set run on the entry state of the call with dirty set d:
\* it rebuilds the table iff CS or DESC_STATE is in d, with the layout
DriverSetProbe(d) ==
  With(prepare_driver_set([pre EXCEPT !.dirty = d], "none"), LAMBDA r :
    IF d \cap {"CS", "DESC_STATE"} = {}
    THEN "driver_set" \notin r.cb.call.rebuilt
    ELSE /\ "driver_set" \in r.cb.call.rebuilt
         /\ DriverSetLayout(r.cb.driver_set, EntryShader))

\* C8: a driver set rebuilt by prepare_driver_set has dyn_bufs.count + 1
\* slots, the dummy sampler in slot 0, the dynamic buffers in slots
\* 1..count, and size (count + 1) * PANVK_DESCRIPTOR_SIZE, for the call made
\* and for every set of dirty aspects the call could have been entered with.
C8_DriverSetLayout ==
  IsCmdDispatch =>
    /\ "driver_set" \in cb.call.rebuilt =>
         DriverSetLayout(cb.driver_set, EntryShader)
    /\ EntryShader.spd # 0 => \A d \in SUBSET Aspects : DriverSetProbe(d)

\* the table rebuilt for a shader with two dynamic buffers, DESC_STATE clean
\* at entry
C8_Witness ==
  /\ IsCmdDispatch
  /\ "driver_set" \in cb.call.rebuilt
  /\ EntryShader.dyn_bufs_count = 2
  /\ pre.dirty = {"CS", "PUSH_UNIFORMS"}
  /\ Len(cb.driver_set.descs) = 3

-----------------------------------------------------------------------------
(* C9 *)

CallShader ==
  IF cb.call.kind = "dispatch_precomp" THEN Shader(precomp_cache_get(0))
  ELSE EntryShader

\* C9 as the specification states it, for one direct or indirect dispatch of
\* a shader with a program: successful or failed, the call leaves the tracked
\* TLS size at the maximum of its value at entry and the shader's TLS size.
C9_TlsSizeIsMaxOfDispatched ==
  (IsCmdDispatch /\ EntryShader.spd # 0) =>
    cb.tls_size = Max2(pre.tls_size, EntryShader.tls_size)

\* C9, amended: the tracked TLS size never decreases; a call (direct,
\* indirect or precompiled, successful or failed) raises it to the maximum
\* of its value and the shader's TLS size iff its TLS preparation got past
\* the TSD and WLS allocations, and leaves it alone otherwise.  So it is the
\* maximum of its initial value (0) and the TLS sizes of the shaders of the
\* calls made so far that got past these two allocations.
C9_TlsSizeGrowsPastWls ==
  /\ pre.tls_size <= cb.tls_size
  /\ cb.tls_size =
       (IF PastWls(cb) THEN Max2(pre.tls_size, CallShader.tls_size)
        ELSE pre.tls_size)
  /\ cb.tls_size = hist.max_tls

\* the WLS allocation of a dispatch fails and the tracked size stays below the
\* shader's TLS size
C9_Witness ==
  /\ Failed
  /\ cb.call.failed_at = "wls"
  /\ ~PastWls(cb)
  /\ cb.tls_size < EntryShader.tls_size

-----------------------------------------------------------------------------
(* C10 *)

\* workgroup-count values an indirect dispatch could have been handed
ProbeCounts == WgCounts

\* the call made again from its entry state with workgroup counts c and the
\* same allocation running out of memory
Redispatch(c) ==
  cmd_dispatch(pre, [pre.call.info EXCEPT !.wg_count = c], cb.call.failed_at,
               pre.call.sysvals_changed, build.pan_arch)

\* C10: for an indirect dispatch neither the instructions emitted nor the
\* WLS sizing nor anything else the call leaves depends on the workgroup
\* counts of the dispatch info; the job-size registers are written by one
\* three-register load from the indirect buffer's address and by no
\* move-immediate.  A direct dispatch loads no job-size register from memory
\* and sets each by one move-immediate of the requested count.
C10_IndirectCountsAtRuntime ==
  /\ (IsCmdDispatch /\ pre.call.info.buffer_dev_addr # 0) =>
       /\ \A c \in ProbeCounts : Redispatch(c) = cb
       /\ \A r \in JobSizeRegs : Moves(r) = {}
       /\ Succeeded =>
            \E i \in Emitted("load") :
              /\ cb.call.emitted[i].a = "JOB_SIZE_X"
              /\ cb.call.emitted[i].w = 3
              /\ cb.call.emitted[i - 1] =
                   cs_move64_to(cb.call.emitted[i].b,
                                pre.call.info.buffer_dev_addr)
              /\ \A j \in Emitted("load") \ {i} :
                   cb.call.emitted[j].a \notin JobSizeRegs
  /\ (IsCmdDispatch /\ pre.call.info.buffer_dev_addr = 0) =>
       /\ \A i \in Loads : cb.call.emitted[i].a \notin JobSizeRegs
       /\ Succeeded =>
            \A k \in 1..3 :
              LET reg == <<"JOB_SIZE_X", "JOB_SIZE_Y", "JOB_SIZE_Z">>[k] IN
                /\ Cardinality(Moves(reg)) = 1
                /\ MovesOf(reg, pre.call.info.wg_count[k]) = Moves(reg)

\* an indirect dispatch of a shader with workgroup-local storage reached its
\* end
C10_Witness ==
  /\ Succeeded
  /\ pre.call.info.buffer_dev_addr # 0
  /\ EntryShader.wls_size # 0
  /\ cb.call.wls_instances = pan_calc_workgroups_per_task(EntryShader.local_size)

(***************************************************************************)
(* C11 - Scenario A                                                        *)
(***************************************************************************)

\* the completion signal of the call as the build encodes it: one deferred
\* sync add on v11+, one sync add under each of the five cases before v11
OneCompletionSignal ==
  IF build.pan_arch >= 11
  THEN Cardinality(Emitted("sync64_add")) = 1
  ELSE /\ Cardinality(Emitted("sync64_add")) = 5
       /\ Cardinality(Emitted("match")) = 1
       /\ \A i \in Emitted("sync64_add") :
            cb.call.emitted[i - 1].op = "case"

C12_ScenarioB ==
  ( /\ Succeeded
    /\ cb.call.kind = "CmdDispatchBase"
    /\ pre.dirty = {}
    /\ ~cb.call.sysvals_changed )
  =>
    /\ Moves("SPD_0") \cup Moves("SRT_0") \cup Moves("FAU_0") = {}
    /\ cb.call.rebuilt = {}
    /\ cb.driver_set = pre.driver_set
    /\ cb.res_table = pre.res_table
    /\ cb.push_uniforms = pre.push_uniforms
    /\ Cardinality(Emitted("run_compute")) = 1
    /\ OneCompletionSignal
    /\ ComputeSyncPoint(cb) = ComputeSyncPoint(pre) + 1

\* the second of two successful dispatches, both direct
C12_Witness ==
  /\ Succeeded
  /\ cb.call.kind = "CmdDispatchBase"
  /\ pre.dirty = {}
  /\ ~cb.call.sysvals_changed
  /\ hist.ncalls = 2
  /\ hist.ndone = 2
  /\ ComputeSyncPoint(cb) = 2

(***************************************************************************)
(* C13 - Scenario C                                                        *)
(***************************************************************************)

\* positions of the loads of n consecutive registers starting at register reg
LoadsTo(reg, n) ==
  {i \in Emitted("load") :
     cb.call.emitted[i].a = reg /\ cb.call.emitted[i].w = n}

\* C13: a successful indirect dispatch emits, before its run-compute,
\* exactly one load of three consecutive 32-bit values into the registers
\* JOB_SIZE_X..Z, from the address of the indirect buffer, which the
\* instruction before it moved into the address register, and no
\* move-immediate into a job-size register.
C13_ScenarioC ==
  (Succeeded /\ cb.call.info.buffer_dev_addr # 0) =>
    /\ Cardinality(LoadsTo("JOB_SIZE_X", 3)) = 1
    /\ \A i \in Loads :
         cb.call.emitted[i].a \in JobSizeRegs => i \in LoadsTo("JOB_SIZE_X", 3)
    /\ \A i \in LoadsTo("JOB_SIZE_X", 3) :
         /\ i > 1
         /\ cb.call.emitted[i].v = 0
         /\ cb.call.emitted[i - 1] =
              cs_move64_to(cb.call.emitted[i].b, cb.call.info.buffer_dev_addr)
         /\ \A j \in Emitted("run_compute") : i < j
    /\ \A r \in JobSizeRegs : Moves(r) = {}

\* an indirect dispatch of a shader that reads the workgroup counts reached
\* its end
C13_Witness ==
  /\ Succeeded
  /\ cb.call.kind = "CmdDispatchIndirect"
  /\ cb.call.info.buffer_dev_addr # 0
  /\ EntryShader.uses_nwg # {}
  /\ Emitted("store32") # {}

(***************************************************************************)
(* C14 - the completion signal follows the dispatch                        *)
(***************************************************************************)

\* the subqueue executed the whole stream
StreamDone == gpu.pc > Len(gpu.stream)

DispatchesExecuted ==
  Cardinality({k \in 1..Len(gpu.ends) : gpu.pc > gpu.ends[k]})

\* C15: under either encoding of the completion signal, and for every
\* scoreboard iteration 0..4 the subqueue can be in, the epilogue of a
\* dispatch executes exactly one sync add, of value 1, to the sync object of
\* the compute subqueue, deferred on the slot of the iteration of that
\* dispatch: the match of the earlier architectures issues the sync add that
\* the single indirectly deferred sync add of v11+ issues, and the sync
\* object ends at the same count.
C15_EncodingsAgree ==
  /\ DispatchesExecuted <= Len(gpu.adds)
  /\ Len(gpu.adds) <= Len(gpu.issued)
  /\ Len(gpu.issued) <= DispatchesExecuted + 1
  /\ \A k \in 1..Len(gpu.adds) :
       gpu.adds[k] = [addr |-> PANVK_SUBQUEUE_COMPUTE, val |-> 1,
                      wait |-> gpu.issued[k]]
  /\ \A k \in 1..Len(gpu.issued) :
       gpu.issued[k] = (gpu.issued[1] + k - 1) % PANVK_SB_ITER_COUNT
  /\ (StreamDone /\ gpu.fired = 1..Len(gpu.adds)) =>
       gpu.syncobj = [q \in Subqueues |->
                        IF q = PANVK_SUBQUEUE_COMPUTE THEN Len(gpu.ends) ELSE 0]

\* the match selected the case of the last iteration and then, the iteration
\* wrapping around, the case of the first, and both signals took effect
C15_Witness ==
  /\ build.pan_arch < 11
  /\ StreamDone
  /\ Len(gpu.adds) = 2
  /\ gpu.adds[1].wait = PANVK_SB_ITER_COUNT - 1
  /\ gpu.adds[2].wait = 0
  /\ gpu.fired = {1, 2}
  /\ gpu.syncobj[PANVK_SUBQUEUE_COMPUTE] = 2

(***************************************************************************)
(* C16 - the sync point is monotonic                                       *)
(***************************************************************************)

\* C16: the relative sync point of the compute subqueue starts at 0 and
\* every step of every sequence of calls (direct, indirect, precompiled,
\* failed, without shader, bind, push) leaves it or adds exactly one: it
\* never decreases and is never reset.
C16_SyncPointMonotonic ==
  /\ ComputeSyncPoint(cb) = 0
  /\ [][ComputeSyncPoint(cb') \in
          {ComputeSyncPoint(cb), ComputeSyncPoint(cb) + 1}]_vars

\* a failed dispatch kept the count that the dispatch before it had left
C16_Witness ==
  /\ Failed
  /\ hist.ncalls = 2
  /\ hist.ndone = 1
  /\ ComputeSyncPoint(pre) = 1
  /\ ComputeSyncPoint(cb) = 1

(***************************************************************************)
(* C17 - resource exhaustion                                               *)
(***************************************************************************)

\* C17: a transient allocation that fails in a dispatch entry point,
\* cmd_dispatch or dispatch_precomp, aborts the dispatch with an error
\* outcome recorded on the command buffer and nothing emitted; the process
\* crashes only on a precondition violation, never on a failed allocation.
C17_ExhaustionIsAnErrorOutcome ==
  /\ cb.call.failed_at # "none" =>
       /\ cb.call.outcome = "fail"
       /\ cb.error # "VK_SUCCESS"
       /\ cb.call.emitted = <<>>
       /\ ComputeSyncPoint(cb) = ComputeSyncPoint(pre)
  /\ crashed => cb.call.failed_at = "none"

(***************************************************************************)
(* C18 - only the compute subqueue                                         *)
(***************************************************************************)

RECURSIVE SumOfAdds(_)
\* the sum of the immediates of the add instructions at the positions S
SumOfAdds(S) ==
  IF S = {} THEN 0
  ELSE With(CHOOSE i \in S : TRUE,
            LAMBDA i : cb.call.emitted[i].v + SumOfAdds(S \ {i}))

\* the index of the sync object that the sync add at position i addresses:
\* the address register holds the base of the sync objects of the subqueue
\* context (index 0) plus what was added to it since
SyncTarget(i) ==
  With({j \in Loads : j < i /\ cb.call.emitted[j].a = "sync_addr"},
       LAMBDA L :
    IF L = {} \/ \E j \in L : cb.call.emitted[j].b # "subqueue_ctx"
                             \/ cb.call.emitted[j].v # 0
    THEN -1
    ELSE With(CHOOSE j \in L : \A k \in L : k <= j, LAMBDA j :
           SumOfAdds({k \in Emitted("add64") :
                        j < k /\ k < i /\ cb.call.emitted[k].a = "sync_addr"})))

\* the instructions a dispatch emits
DispatchOps ==
  {"move64", "move32", "load", "load64", "store64", "store32", "add64",
   "flush_stores", "next_iter_sb", "run_compute", "match", "case",
   "match_end", "sync64_add"}

\* C18: a dispatch (direct, indirect or precompiled) changes the relative
\* sync point of no subqueue but the compute subqueue, every sync add it
\* emits adds 1 to the sync object at index PANVK_SUBQUEUE_COMPUTE and to no
\* other, and it emits no instruction that waits on a sync object.
C18_OnlyComputeSubqueue ==
  cb.call.kind # "none" =>
    /\ \A q \in Subqueues \ {PANVK_SUBQUEUE_COMPUTE} :
         cb.relative_sync_point[q] = pre.relative_sync_point[q]
    /\ \A i \in Emitted("sync64_add") :
         /\ SyncTarget(i) = PANVK_SUBQUEUE_COMPUTE
         /\ cb.call.emitted[i].a = "sync_addr"
         /\ cb.call.emitted[i].v = 1
    /\ \A i \in 1..Len(cb.call.emitted) : cb.call.emitted[i].op \in DispatchOps

\* a precompiled dispatch signalled its completion in the case encoding
C18_Witness ==
  /\ cb.call.kind = "dispatch_precomp"
  /\ cb.call.outcome = "ok"
  /\ build.pan_arch < 11
  /\ Cardinality(Emitted("sync64_add")) = 5
  /\ ComputeSyncPoint(cb) = ComputeSyncPoint(pre) + 1

(***************************************************************************)
(* C19 - the order of the emitted stream                                   *)
(***************************************************************************)

\* the registers of the compute context
CtxRegs ==
  {"SRT_0", "FAU_0", "SPD_0", "TSD_0", "GLOBAL_ATTRIBUTE_OFFSET", "WG_SIZE",
   "JOB_OFFSET_X", "JOB_OFFSET_Y", "JOB_OFFSET_Z"} \cup JobSizeRegs

\* positions of the updates of the registers of the compute context
CtxUpdates ==
  UNION {Moves(r) : r \in CtxRegs} \cup LoadsTo("JOB_SIZE_X", 3)

\* C19: the stream of a dispatch that reached its end (direct, indirect or
\* precompiled) is ordered: the copy of the TLS pointer, present exactly
\* when the shader uses TLS, then the updates of the compute registers, then
\* the scoreboard selection, then exactly one run-compute, then the
\* completion signal, which ends the stream; the sync point is advanced and,
\* for cmd_dispatch, the dirty aspects are cleared only after the aspects
\* dirty at entry were seen by the emission.
C19_StreamOrder ==
  (cb.call.kind # "none" /\ cb.call.outcome = "ok") =>
    /\ Cardinality(Emitted("next_iter_sb")) = 1
    /\ Cardinality(Emitted("run_compute")) = 1
    /\ Emitted("sync64_add") # {}
    /\ (Emitted("store64") # {}) = (CallShader.tls_size # 0)
    /\ \A t \in Emitted("store64"), u \in CtxUpdates : t < u
    /\ \A u \in CtxUpdates, n \in Emitted("next_iter_sb") : u < n
    /\ \A n \in Emitted("next_iter_sb"), r \in Emitted("run_compute") : n < r
    /\ \A r \in Emitted("run_compute"), a \in Emitted("sync64_add") : r < a
    /\ \A i \in 1..Len(cb.call.emitted) :
         \E a \in Emitted("sync64_add") :
           i <= a \/ cb.call.emitted[i].op = "match_end"
    /\ ComputeSyncPoint(cb) = ComputeSyncPoint(pre) + 1
    /\ IsCmdDispatch =>
         pre.dirty \subseteq cb.call.dirty_at_emit /\ cb.dirty = {}

\* a dispatch of a shader with TLS copied the TLS pointer and reached its end
C19_Witness ==
  /\ Succeeded
  /\ CallShader.tls_size # 0
  /\ Emitted("store64") # {}
  /\ pre.dirty # {}
  /\ build.pan_arch < 11

(***************************************************************************)
(* C20 - loads follow the dirty aspects                                    *)
(***************************************************************************)

\* C20: in a direct or indirect dispatch that reached its end the SPD
\* register is loaded exactly when the shader aspect is dirty when the
\* registers are emitted, the FAU register exactly when the push-uniform
\* aspect is, and the SRT register exactly when the shader or the descriptor
\* aspect is; no register is loaded twice.  The aspects dirty at emission
\* are those dirty at entry, the descriptor aspect when the driver set was
\* rebuilt, and the push-uniform aspect when the system values changed.
C20_LoadsFollowDirty ==
  Succeeded =>
    /\ (Moves("SPD_0") # {}) = ("CS" \in cb.call.dirty_at_emit)
    /\ (Moves("FAU_0") # {}) = ("PUSH_UNIFORMS" \in cb.call.dirty_at_emit)
    /\ (Moves("SRT_0") # {}) =
         ({"CS", "DESC_STATE"} \cap cb.call.dirty_at_emit # {})
    /\ \A r \in {"SPD_0", "FAU_0", "SRT_0"} : Cardinality(Moves(r)) <= 1
    /\ cb.call.dirty_at_emit =
         pre.dirty
         \cup (IF "driver_set" \in cb.call.rebuilt THEN {"DESC_STATE"} ELSE {})
         \cup (IF cb.call.sysvals_changed THEN {"PUSH_UNIFORMS"} ELSE {})

\* only the descriptor aspect was dirty: the SRT register alone was loaded
C20_Witness ==
  /\ Succeeded
  /\ cb.call.dirty_at_emit = {"DESC_STATE"}
  /\ Moves("SRT_0") # {}
  /\ Moves("SPD_0") = {}
  /\ Moves("FAU_0") = {}

(***************************************************************************)
(* C21 - workgroup-local storage                                           *)
(***************************************************************************)

\* the call asked the allocator for a WLS block
WlsAttempted ==
  \/ cb.call.failed_at = "wls"
  \/ \E i \in 1..Len(cb.call.allocs) : cb.call.allocs[i] = "wls"

\* the call was given its per-job TSD
TsdAllocated == \E i \in 1..Len(cb.call.allocs) : cb.call.allocs[i] = "tsd"

\* C21: a dispatch asks for a WLS block only when its shader declares a
\* nonzero WLS size, and then always once its TSD is allocated; the size
\* asked for is the per-workgroup size times the instance count times the
\* core id range, the instance count being computed from the workgroup
\* counts for a direct dispatch and from the static estimate for the shape
\* of the workgroup for an indirect one; when the WLS allocation fails the
\* prepare step returns 0 and the dispatch is abandoned with nothing emitted.
C21_WlsSizing ==
  cb.call.kind # "none" =>
    /\ WlsAttempted => CallShader.wls_size # 0
    /\ (CallShader.wls_size # 0 /\ TsdAllocated) => WlsAttempted
    /\ WlsAttempted =>
         /\ cb.call.wls_total_size =
              CallShader.wls_size * cb.call.wls_instances * CoreIdRange
         /\ cb.call.wls_instances =
              IF cb.call.info.buffer_dev_addr # 0
              THEN pan_calc_workgroups_per_task(CallShader.local_size)
              ELSE NextPow2(cb.call.info.wg_count[1])
                     * NextPow2(cb.call.info.wg_count[2])
                     * NextPow2(cb.call.info.wg_count[3])
    /\ ~WlsAttempted =>
         cb.call.wls_total_size = 0 /\ cb.call.wls_instances = 0
    /\ cb.call.failed_at = "wls" =>
         /\ cb.call.outcome = "fail"
         /\ cb.call.tsd = 0
         /\ cb.call.emitted = <<>>
         /\ ComputeSyncPoint(cb) = ComputeSyncPoint(pre)

\* a direct dispatch of a shader with WLS was refused its WLS block
C21_Witness ==
  /\ Failed
  /\ cb.call.kind = "CmdDispatchBase"
  /\ cb.call.failed_at = "wls"
  /\ CallShader.wls_size # 0
  /\ cb.call.wls_total_size > 0

(***************************************************************************)
(* C22 - the uniform register value                                        *)
(***************************************************************************)

\* the count field and the address field of a register value
FauCountOf(v) == v \div 2^FauCountShift
FauAddrOf(v) == v % 2^FauCountShift

\* C22: the uniform register value is the push-uniform address with the
\* count in the top field: for every count that fits the field and every
\* address below the field, the top field of the value is the count and the
\* bits below it are the address; a count that does not fit is truncated to
\* the width of the field, and address bits at or above the field are or-ed
\* into the count.
C22_FauPacking ==
  fau.state = "packed" =>
    /\ fau.fau_ptr < 2^U64Bits
    /\ FauAddrOf(fau.fau_ptr) = FauAddrOf(fau.push_uniforms)
    /\ ( /\ fau.total_count < 2^FauCountBits
         /\ fau.push_uniforms < 2^FauCountShift ) =>
         /\ FauCountOf(fau.fau_ptr) = fau.total_count
         /\ FauAddrOf(fau.fau_ptr) = fau.push_uniforms
         /\ fau.fau_ptr = fau.push_uniforms + fau.total_count * 2^FauCountShift
    /\ ( /\ fau.total_count >= 2^FauCountBits
         /\ fau.push_uniforms < 2^FauCountShift ) =>
         /\ FauCountOf(fau.fau_ptr) = fau.total_count % 2^FauCountBits
         /\ FauCountOf(fau.fau_ptr) # fau.total_count
    /\ fau.push_uniforms >= 2^FauCountShift =>
         FauCountOf(fau.fau_ptr) =
           BitOr(FauCountOf(fau.push_uniforms),
                 fau.total_count % 2^FauCountBits)

\* the largest count that fits was packed with the largest address below it
C22_Witness ==
  /\ fau.state = "packed"
  /\ fau.total_count = 2^FauCountBits - 1
  /\ fau.push_uniforms = 2^FauCountShift - 1
  /\ fau.fau_ptr = 2^U64Bits - 1

(***************************************************************************)
(* C23 - the copy of the TLS pointer                                       *)
(***************************************************************************)

\* C23: a dispatch that reached its end (direct, indirect or precompiled)
\* emits the copy of the TLS pointer exactly when its shader declares a
\* nonzero TLS size.  The copy opens the stream: a 64-bit load from offset
\* 8 of the TLS descriptor of the command buffer, a 64-bit store of the
\* loaded register to offset 8 of the per-job descriptor of this dispatch,
\* and a flush of the stores, all before the first update of a compute
\* register.  Without TLS the stream opens with the register updates and
\* holds no 64-bit store.
C23_TlsCopy ==
  (cb.call.kind # "none" /\ cb.call.outcome = "ok") =>
    /\ CtxUpdates # {}
    /\ IF CallShader.tls_size # 0
       THEN /\ Len(cb.call.emitted) > 5
            /\ SubSeq(cb.call.emitted, 1, 5) =
                 <<cs_move64_to("scratch0", cb.tls_desc),
                   cs_load64_to("scratch2", "scratch0", 8),
                   cs_move64_to("scratch0", cb.call.tsd),
                   cs_store64("scratch2", "scratch0", 8),
                   cs_flush_stores>>
            /\ Emitted("store64") = {4}
            /\ \A u \in CtxUpdates : u > 5
            /\ 6 \in CtxUpdates
       ELSE /\ Emitted("store64") = {}
            /\ 1 \in CtxUpdates

\* an indirect dispatch of a shader with TLS copied the pointer from the
\* descriptor of the command buffer to its own
C23_Witness ==
  /\ Succeeded
  /\ cb.call.kind = "CmdDispatchIndirect"
  /\ CallShader.tls_size # 0
  /\ cb.tls_desc # 0
  /\ cb.call.tsd # cb.tls_desc
  /\ Emitted("store64") = {4}

(***************************************************************************)
(* C24 - the run-compute instruction                                       *)
(***************************************************************************)

\* C24: a dispatch that reached its end emits exactly one run-compute.  An
\* indirect dispatch issues it on task axis X with the workgroups-per-task
\* value of the shape of the workgroup of its shader as task increment,
\* which is at least one; a direct or precompiled dispatch issues it with
\* the axis and the increment that the task axis calculation returns for
\* its shader.
C24_RunCompute ==
  (cb.call.kind # "none" /\ cb.call.outcome = "ok") =>
    /\ Cardinality(Emitted("run_compute")) = 1
    /\ \A i \in Emitted("run_compute") :
         IF cb.call.info.buffer_dev_addr # 0
         THEN /\ cb.call.emitted[i].a = "X"
              /\ cb.call.emitted[i].v =
                   pan_calc_workgroups_per_task(CallShader.local_size)
              /\ cb.call.emitted[i].v >= 1
         ELSE /\ cb.call.emitted[i].a =
                   calculate_task_axis_and_increment(CallShader).axis
              /\ cb.call.emitted[i].v =
                   calculate_task_axis_and_increment(CallShader).increment

\* an indirect dispatch of a shader whose workgroups share a task was issued
C24_Witness ==
  /\ Succeeded
  /\ cb.call.info.buffer_dev_addr # 0
  /\ pan_calc_workgroups_per_task(CallShader.local_size) > 1
  /\ \E i \in Emitted("run_compute") :
       cb.call.emitted[i].v > 1 /\ cb.call.emitted[i].a = "X"

(***************************************************************************)
(* C25 - a precompiled kernel leaves every aspect dirty                    *)
(***************************************************************************)

\* the call recorded in the command buffer is a precompiled dispatch that
\* reached its end
C25_PrecompDone ==
  cb.call.kind = "dispatch_precomp" /\ cb.call.outcome = "ok"

\* the call recorded in the command buffer is a direct or indirect dispatch
\* with a shader bound that reached its end
C25_RegularDone == Succeeded /\ pre.shader # "none"

\* the call rebuilt the driver set and the resource table and loaded the
\* SRT, FAU and SPD registers with the values of its own shader
C25_Rebuilt ==
  /\ {"driver_set", "res_table"} \subseteq cb.call.rebuilt
  /\ cb.res_table # 0
  /\ cb.res_table_driver_set = cb.driver_set.dev_addr
  /\ Cardinality(MovesOf("SRT_0", cb.res_table)) = 1
  /\ Cardinality(MovesOf("FAU_0", fau_ptr(cb.push_uniforms,
                                          EntryShader.fau_total_count))) = 1
  /\ Cardinality(MovesOf("SPD_0", EntryShader.spd)) = 1
  /\ \A r \in {"SRT_0", "FAU_0", "SPD_0"} : Cardinality(Moves(r)) = 1

\* C25: a precompiled dispatch that reaches its end adds exactly one to the
\* sync point of the compute subqueue, leaves the other subqueues alone and
\* leaves the three aspects dirty whatever was dirty at entry; the three
\* aspects then stay dirty until a direct or indirect dispatch with a shader
\* bound reaches its end, and that dispatch rebuilds the driver set and the
\* resource table and loads the SRT, FAU and SPD registers anew.
C25_PrecompDirtiesAll ==
  [][/\ (hist'.ncalls = hist.ncalls + 1 /\ C25_PrecompDone') =>
          /\ cb'.dirty = Aspects
          /\ ComputeSyncPoint(cb') = ComputeSyncPoint(cb) + 1
          /\ \A q \in Subqueues \ {PANVK_SUBQUEUE_COMPUTE} :
               cb'.relative_sync_point[q] = cb.relative_sync_point[q]
     /\ cb.dirty = Aspects =>
          IF hist'.ncalls = hist.ncalls + 1 /\ C25_RegularDone'
          THEN C25_Rebuilt'
          ELSE cb'.dirty = Aspects]_vars

\* a dispatch with a shader bound reached its end after a precompiled
\* dispatch, the only one before it, had left every aspect dirty
C25_Witness ==
  /\ C25_RegularDone
  /\ hist.ncalls = 2
  /\ hist.ndone = 2
  /\ ComputeSyncPoint(pre) = 1
  /\ pre.driver_set.dev_addr = 0
  /\ pre.dirty = Aspects
  /\ C25_Rebuilt

(***************************************************************************)
(* C26 - the resource table follows the driver set                         *)
(***************************************************************************)

\* the descriptor aspect is dirty once prepare_driver_set returned: when the
\* registers are emitted, or when the call returns without emitting them
C26_DescStateDirtyAfter ==
  IF cb.call.outcome = "ok" THEN "DESC_STATE" \in cb.call.dirty_at_emit
  ELSE "DESC_STATE" \in cb.dirty

\* the SRT register holds the resource table of the command buffer, and that
\* table was built over the driver set of the command buffer
C26_SrtIsCurrent ==
  /\ hist.srt = cb.res_table
  /\ cb.res_table # 0
  /\ cb.res_table_driver_set = cb.driver_set.dev_addr

\* C26 as stated: in every direct or indirect dispatch in which
\* prepare_driver_set allocates a driver set the descriptor aspect is dirty
\* afterwards and the resource table is rebuilt in that dispatch, and a
\* dispatch that reaches its end loads the SRT register with it; after a
\* dispatch that reached its end the SRT register holds a resource table
\* built over the current driver set.
C26_TableRebuiltWithDriverSet ==
  IsCmdDispatch =>
    /\ "driver_set" \in cb.call.rebuilt =>
         /\ C26_DescStateDirtyAfter
         /\ "res_table" \in cb.call.rebuilt
         /\ cb.call.outcome = "ok" =>
              Cardinality(MovesOf("SRT_0", cb.res_table)) = 1
    /\ Succeeded => C26_SrtIsCurrent

\* C26 amended: in every direct or indirect dispatch in which
\* prepare_driver_set allocates a driver set the descriptor aspect is dirty
\* afterwards; the resource table is rebuilt in that dispatch unless the
\* allocation of the push uniforms or of the resource table fails, and then
\* the descriptor aspect is still dirty when the dispatch returns; a
\* dispatch that reaches its end loads the SRT register with the rebuilt
\* table; after a dispatch that reached its end the SRT register holds a
\* resource table built over the current driver set.
C26_TableFollowsDriverSet ==
  IsCmdDispatch =>
    /\ "driver_set" \in cb.call.rebuilt =>
         /\ C26_DescStateDirtyAfter
         /\ ("res_table" \in cb.call.rebuilt) =
              (cb.call.failed_at \notin {"push_uniforms", "res_table"})
         /\ cb.call.failed_at \in {"push_uniforms", "res_table"} =>
              /\ cb.call.outcome = "fail"
              /\ "DESC_STATE" \in cb.dirty
              /\ cb.call.emitted = <<>>
         /\ cb.call.outcome = "ok" =>
              /\ Cardinality(MovesOf("SRT_0", cb.res_table)) = 1
              /\ Cardinality(Moves("SRT_0")) = 1
    /\ Succeeded => C26_SrtIsCurrent

\* a dispatch entered with only the descriptor aspect dirty, after an earlier
\* one, rebuilt the driver set and the resource table and loaded the SRT
\* register with the new table
C26_Witness ==
  /\ Succeeded
  /\ hist.ndone = 2
  /\ pre.dirty = {"DESC_STATE"}
  /\ {"driver_set", "res_table"} \subseteq cb.call.rebuilt
  /\ cb.res_table # pre.res_table
  /\ hist.srt = cb.res_table

(***************************************************************************)
(* C27 - the buffer address decides the kind of the dispatch               *)
(***************************************************************************)

\* the call was compiled as an indirect dispatch: the job-size registers
\* are loaded from the buffer and the run-compute uses workgroups per task
C27_CompiledIndirect ==
  /\ LoadsTo("JOB_SIZE_X", 3) # {}
  /\ \A r \in JobSizeRegs : Moves(r) = {}
  /\ MovesOf("scratch0", cb.call.info.buffer_dev_addr) # {}
  /\ \A i \in Emitted("run_compute") :
       cb.call.emitted[i].v =
         pan_calc_workgroups_per_task(CallShader.local_size)
  /\ CallShader.wls_size # 0 =>
       cb.call.wls_instances =
         pan_calc_workgroups_per_task(CallShader.local_size)

\* the call was compiled as a direct dispatch of counts: the job-size
\* registers are moved from the counts and none is loaded from memory
C27_CompiledDirect(counts) ==
  /\ \A r \in JobSizeRegs, n \in 1..3 : LoadsTo(r, n) = {}
  /\ \A k \in 1..3 :
       /\ Cardinality(Moves(<<"JOB_SIZE_X", "JOB_SIZE_Y", "JOB_SIZE_Z">>[k])) = 1
       /\ MovesOf(<<"JOB_SIZE_X", "JOB_SIZE_Y", "JOB_SIZE_Z">>[k],
                  counts[k]) # {}
  /\ \A i \in Emitted("run_compute") :
       /\ cb.call.emitted[i].a =
            calculate_task_axis_and_increment(CallShader).axis
       /\ cb.call.emitted[i].v =
            calculate_task_axis_and_increment(CallShader).increment
  /\ CallShader.wls_size # 0 =>
       cb.call.wls_instances =
         NextPow2(counts[1]) * NextPow2(counts[2]) * NextPow2(counts[3])

\* C27: a request of CmdDispatchBase that reaches its end is compiled as a
\* direct dispatch of its counts; a request of CmdDispatchIndirect that
\* reaches its end is compiled as an indirect dispatch when the address of
\* its buffer is not 0 and as a direct dispatch of counts (0,0,0) when it
\* is 0, and in both cases it emits one run-compute and adds one to the
\* sync point.
C27_AddressDecidesKind ==
  Succeeded =>
    /\ Cardinality(Emitted("run_compute")) = 1
    /\ ComputeSyncPoint(cb) = ComputeSyncPoint(pre) + 1
    /\ Emitted("sync64_add") # {}
    /\ cb.call.kind = "CmdDispatchBase" =>
         /\ cb.call.info.buffer_dev_addr = 0
         /\ C27_CompiledDirect(cb.call.info.wg_count)
    /\ cb.call.kind = "CmdDispatchIndirect" =>
         IF cb.call.info.buffer_dev_addr # 0
         THEN C27_CompiledIndirect
         ELSE C27_CompiledDirect(<<0, 0, 0>>)

\* an indirect dispatch from a buffer of address 0 reached its end
C27_Witness ==
  /\ Succeeded
  /\ cb.call.kind = "CmdDispatchIndirect"
  /\ cb.call.info.buffer_dev_addr = 0
  /\ MovesOf("JOB_SIZE_X", 0) # {}
  /\ Emitted("run_compute") # {}
  /\ ComputeSyncPoint(cb) = ComputeSyncPoint(pre) + 1

(***************************************************************************)
(* C28 - the host pointer of an index buffer                               *)
(***************************************************************************)

\* the memory offset at which buffer b was bound
BoundOffset(b) == host.bufs[b].device_address - MemDevAddr

\* buffer b is bound and has a host mapping
HostMapped(b) ==
  /\ host.bufs[b].alive
  /\ host.bufs[b].device_address # 0
  /\ host.maps[b].addr # 0

\* C28: for an index buffer bound on a device older than v9 the pages from
\* the page of the memory offset to the last byte of the buffer are mapped
\* and host_ptr is the address of the mapping plus the memory offset modulo
\* the page size, for every memory offset; DestroyBuffer unmaps exactly the
\* pages that were mapped for the buffer.
C28_HostPtrIsFirstByte ==
  /\ \A b \in BufIds :
       HostMapped(b) =>
         /\ build.pan_arch < 9 /\ host.bufs[b].index
         /\ host.maps[b].addr % PageSize = 0
         /\ host.maps[b].len =
              (BoundOffset(b) % PageSize) + BufSize(b)
         /\ PagesOf(host.maps[b].addr, host.maps[b].len) \subseteq host.vm
         /\ host.bufs[b].host_ptr =
              host.maps[b].addr + (BoundOffset(b) % PageSize)
  /\ host.call.kind = "DestroyBuffer" =>
       host.call.before \ host.vm =
         PagesOf(host.maps[host.call.infos[1].buffer].addr,
                 host.maps[host.call.infos[1].buffer].len)

(***************************************************************************)
(* C29 - a rejected format query                                           *)
(***************************************************************************)

\* C29: whenever GetPhysicalDeviceImageFormatProperties2 rejects the request
\* (format, tiling or usage not supported, external handle type not
\* supported, DISJOINT on a single-plane format without ALIAS, a sparse flag
\* on a YCbCr format, sparse binding with host-transfer usage) it returns an
\* error code, never VK_SUCCESS, and every member of imageFormatProperties
\* is zero.
C29_RejectedIsZeroedError ==
  (/\ host.call.kind = "GetPhysicalDeviceImageFormatProperties2"
   /\ host.call.rejected # "none") =>
    /\ host.call.result # "VK_SUCCESS"
    /\ host.call.props = ZeroProps

(***************************************************************************)
(* C30 - every element of a bind array is processed                        *)
(***************************************************************************)

\* the last call is a bind call
IsBindCall == host.call.kind \in {"BindBufferMemory2", "BindImageMemory2"}

\* the mapping that element i of the last call needs fails
ElementFails(i) ==
  IF host.call.kind = "BindBufferMemory2" THEN host.call.infos[i].mmap_fails
  ELSE host.call.infos[i].mmap_fails # 0

\* the memory of element i of the last call was recorded in its object
ElementBound(i) ==
  IF host.call.kind = "BindBufferMemory2"
  THEN host.bufs[host.call.infos[i].buffer].device_address =
         MemDevAddr + host.call.infos[i].memoryOffset
  ELSE /\ host.imgs[host.call.infos[i].image].mem = 1
       /\ \E k \in 1..2 :
            host.imgs[host.call.infos[i].image].base[k] =
              MemDevAddr + host.call.infos[i].memoryOffset

\* the elements of the last call that failed
FailedElements ==
  {i \in 1..Len(host.call.outcomes) : host.call.outcomes[i] # "VK_SUCCESS"}

\* C30: BindBufferMemory2 and BindImageMemory2 process every element of the
\* array, also after one failed: the bind status of an element, where
\* present, holds the outcome of that element, success or its error; the
\* call returns VK_SUCCESS exactly when every element succeeded and
\* otherwise the error of the last element that failed.
C30_EveryElementProcessed ==
  IsBindCall =>
    /\ Len(host.call.outcomes) = Len(host.call.infos)
    /\ Len(host.call.status) = Len(host.call.infos)
    /\ \A i \in 1..Len(host.call.infos) :
         /\ ElementBound(i)
         /\ host.call.outcomes[i] =
              (IF ElementFails(i) THEN "VK_ERROR_OUT_OF_HOST_MEMORY"
               ELSE "VK_SUCCESS")
         /\ host.call.status[i] =
              (IF host.call.infos[i].status THEN host.call.outcomes[i]
               ELSE "absent")
    /\ (host.call.result = "VK_SUCCESS") = (FailedElements = {})
    /\ FailedElements # {} =>
         \E i \in FailedElements :
           /\ \A j \in FailedElements : j <= i
           /\ host.call.result = host.call.outcomes[i]

\* the first of two buffers failed to map and the second was bound and
\* reported success, and the call returned the error
C30_Witness ==
  /\ host.call.kind = "BindBufferMemory2"
  /\ Len(host.call.infos) = 2
  /\ host.call.outcomes = <<"VK_ERROR_OUT_OF_HOST_MEMORY", "VK_SUCCESS">>
  /\ host.call.status[2] = "VK_SUCCESS"
  /\ host.call.result = "VK_ERROR_OUT_OF_HOST_MEMORY"
  /\ ElementBound(2)

====
